---- MODULE Spec2Model ----
(***************************************************************************)
(* Key/value cache of MaxText's AttentionOp (layers/attentions.py).        *)
(*                                                                         *)
(* The state is the flax "cache" variable collection of one AttentionOp,   *)
(* seen as the mutable store the module's methods assign to                *)
(* (`var.value = ...`), together with the module's configuration fields.   *)
(* Every action is one call of AttentionOp.kv_cache, translated statement  *)
(* by statement: a call that raises keeps the assignments made before the  *)
(* raise.                                                                  *)
(*                                                                         *)
(* Tensors are records [shape, data]: shape is the tuple of axis sizes,    *)
(* data maps every 0-based index tuple to an integer element.              *)
(***************************************************************************)
EXTENDS Integers, Sequences, FiniteSets, TLC

\* ---------------------------------------------------------------- bounds
MaxTargetLength == 4
MaxPrefillLength == 2
KvHeadSize == 2
ExtraDecodes == 1
MaxLogit == 1

\* ------------------------------------------------------ program constants
DECODING_ACTIVE_SEQUENCE_INDICATOR == 1
MAX_INT8 == 127

CACHE_BATCH == "cache_batch"
CACHE_SEQUENCE == "cache_sequence"
CACHE_HEADS == "cache_heads"
CACHE_KV == "cache_kv"

MODEL_MODE_TRAIN == "train"
MODEL_MODE_PREFILL == "prefill"
MODEL_MODE_AUTOREGRESSIVE == "autoregressive"

\* AttentionOp.kv_cache_logical_layout
kv_cache_logical_layout == <<CACHE_HEADS, CACHE_BATCH, CACHE_SEQUENCE, CACHE_KV>>

\* The (prefill_cache_axis_order, ar_cache_axis_order) a module is configured with in
\* this model: the defaults, and each cache in turn with the sequence axis before the
\* batch axis or with the heads axis last of the three.
CacheAxisOrders ==
  {<<(<<0, 1, 2, 3>>), (<<0, 1, 2, 3>>)>>,
   <<(<<0, 2, 1, 3>>), (<<1, 2, 0, 3>>)>>,
   <<(<<1, 2, 0, 3>>), (<<0, 2, 1, 3>>)>>}

VARIABLES
  num_kv_heads,              \* AttentionOp.num_kv_heads, heads of every key/value
  batch_size,                \* batch size of every tensor of the episode
  quantize_kvcache,          \* AttentionOp.quantize_kvcache
  prefill_cache_axis_order,  \* AttentionOp.prefill_cache_axis_order
  ar_cache_axis_order,       \* AttentionOp.ar_cache_axis_order
  cache,                     \* the "cache" collection: variable name -> tensor
  last,                      \* the last call of kv_cache: its arguments and outcome
  attn                       \* the last attention computed: its inputs and result

vars == <<num_kv_heads, batch_size, quantize_kvcache, prefill_cache_axis_order,
          ar_cache_axis_order, cache, last, attn>>

config == <<num_kv_heads, batch_size, quantize_kvcache, prefill_cache_axis_order,
            ar_cache_axis_order>>

\* ---------------------------------------------------------------- tensors
Idx(shape) ==
  CASE Len(shape) = 0 -> {<<>>}
    [] Len(shape) = 1 -> {<<a>> : a \in 0 .. shape[1] - 1}
    [] Len(shape) = 2 -> {<<a, b>> : a \in 0 .. shape[1] - 1, b \in 0 .. shape[2] - 1}
    [] Len(shape) = 4 -> {<<a, b, c, d>> : a \in 0 .. shape[1] - 1, b \in 0 .. shape[2] - 1,
                                           c \in 0 .. shape[3] - 1, d \in 0 .. shape[4] - 1}

\* an array of a shape, every element v
Full(shape, v) == [shape |-> shape, data |-> [p \in Idx(shape) |-> v]]

\* jnp.zeros
Zeros(shape) == [shape |-> shape, data |-> [p \in Idx(shape) |-> 0]]

\* Python's None for an optional tensor argument
None == [shape |-> <<>>, data |-> <<>>]

\* t with the component of axis `axis` (0-based) replaced by v
SetAt(t, axis, v) == [i \in 1 .. Len(t) |-> IF i = axis + 1 THEN v ELSE t[i]]

\* list.index / tuple.index
IndexOf(tuple, x) == (CHOOSE i \in 1 .. Len(tuple) : tuple[i] = x) - 1

Max(a, b) == IF a >= b THEN a ELSE b
Min(a, b) == IF a <= b THEN a ELSE b
Abs(a) == IF a >= 0 THEN a ELSE -a

\* jnp.moveaxis(a, (0, 1, 2, 3), destination): axis i of a becomes axis destination[i]
moveaxis(a, destination) ==
  LET src(j) == IndexOf(destination, j - 1) + 1
      shape == [j \in 1 .. 4 |-> a.shape[src(j)]]
  IN [shape |-> shape,
      data |-> [q \in Idx(shape) |-> a.data[[i \in 1 .. 4 |-> q[destination[i] + 1]]]]]

\* jnp broadcasting of two shapes of equal rank
Broadcastable(s1, s2) ==
  /\ Len(s1) = Len(s2)
  /\ \A i \in 1 .. Len(s1) : s1[i] = s2[i] \/ s1[i] = 1 \/ s2[i] = 1

BroadcastShape(s1, s2) == [i \in 1 .. Len(s1) |-> Max(s1[i], s2[i])]

\* the index of a broadcast operand of shape s that index p of the result reads
BroadcastIdx(s, p) == [i \in 1 .. Len(s) |-> IF s[i] = 1 THEN 0 ELSE p[i]]

\* jax.lax.dynamic_update_index_in_dim(operand, update, index, axis) for an update of
\* the operand's rank: lax.dynamic_update_slice with start 0 on every other axis. It
\* raises when the update exceeds the operand on some axis, and clamps the start so
\* that the update fits.
dynamic_update_index_in_dim(operand, update, index, axis) ==
  IF \/ Len(update.shape) # Len(operand.shape)
     \/ \E i \in 1 .. Len(operand.shape) : update.shape[i] > operand.shape[i]
  THEN [ok |-> FALSE, t |-> operand]
  ELSE LET limit == operand.shape[axis + 1] - update.shape[axis + 1]
           start == [i \in 1 .. Len(operand.shape) |->
                       IF i = axis + 1 THEN Max(0, Min(index, limit)) ELSE 0]
           inside(p) == \A i \in 1 .. Len(p) :
                          start[i] <= p[i] /\ p[i] < start[i] + update.shape[i]
       IN [ok |-> TRUE,
           t |-> [shape |-> operand.shape,
                  data |-> [p \in Idx(operand.shape) |->
                              IF inside(p)
                              THEN update.data[[i \in 1 .. Len(p) |-> p[i] - start[i]]]
                              ELSE operand.data[p]]]]

\* operand.at[:, .., lengths, .., :].set(update), the 1-d index array `lengths` on
\* axis `axis`: the indexed view has len(lengths) on that axis, the update is broadcast
\* to the view, and an index beyond the axis is dropped (jax scatter's default mode).
at_set(operand, lengths, axis, update) ==
  LET n == lengths.shape[1]
      view == SetAt(operand.shape, axis, n)
      hits(p) == {j \in 0 .. n - 1 : lengths.data[<<j>>] = p[axis + 1]}
      from(p) == LET j == CHOOSE j \in hits(p) : TRUE
                 IN BroadcastIdx(update.shape, SetAt(p, axis, j))
  IN IF ~(Broadcastable(update.shape, view) /\ BroadcastShape(update.shape, view) = view)
     THEN [ok |-> FALSE, t |-> operand]
     ELSE [ok |-> TRUE,
           t |-> [shape |-> operand.shape,
                  data |-> [p \in Idx(operand.shape) |->
                              IF hits(p) # {} THEN update.data[from(p)]
                              ELSE operand.data[p]]]]

\* rounded quotient of non-negative integers (jnp.rint of a / b)
RoundDiv(a, b) == IF b = 0 THEN 0 ELSE (2 * a + b) \div (2 * b)

\* quantizations.quantize_kv(kv, axis): one scale per slice along `axis` (the largest
\* magnitude of the slice), and the elements as multiples of scale / MAX_INT8.
quantize_kv(kv, axis) ==
  LET sshape == SetAt(kv.shape, axis, 1)
      line(p) == {kv.data[SetAt(p, axis, k)] : k \in 0 .. kv.shape[axis + 1] - 1}
      scale == [shape |-> sshape,
                data |-> [p \in Idx(sshape) |->
                            CHOOSE m \in {Abs(x) : x \in line(p)} :
                              \A x \in line(p) : Abs(x) <= m]]
  IN [value |-> [shape |-> kv.shape,
                 data |-> [p \in Idx(kv.shape) |->
                             RoundDiv(kv.data[p] * MAX_INT8, scale.data[SetAt(p, axis, 0)])]],
      scale |-> scale]

\* quantizations.unquantize_kv(value, scale, dtype): value * scale / MAX_INT8 under
\* jnp broadcasting; raises when the two shapes do not broadcast.
unquantize_kv(value, scale) ==
  IF ~Broadcastable(value.shape, scale.shape)
  THEN [ok |-> FALSE, t |-> value]
  ELSE LET shape == BroadcastShape(value.shape, scale.shape)
       IN [ok |-> TRUE,
           t |-> [shape |-> shape,
                  data |-> [p \in Idx(shape) |->
                              RoundDiv(value.data[BroadcastIdx(value.shape, p)]
                                         * scale.data[BroadcastIdx(scale.shape, p)],
                                       MAX_INT8)]]]

\* ----------------------------------------------------------- cache layout
\* a revert that moves the axes as reshape_kv_cache moves them
revert_kv_cache_as_cached(kv, cached_axis_order) ==
  moveaxis(kv, [a \in 1 .. 4 |-> IndexOf(cached_axis_order, a - 1)])

\* AttentionOp.revert_kv_cache
revert_kv_cache(kv, cached_axis_order) == moveaxis(kv, cached_axis_order)

\* AttentionOp.reshape_kv_cache: axis_destination is the inverse of the axis order
reshape_kv_cache(kv, cached_axis_order) ==
  LET axis_destination == [a \in 1 .. 4 |-> IndexOf(cached_axis_order, a - 1)]
  IN moveaxis(kv, axis_destination)

\* AttentionOp.cached_kv_layout
cached_kv_layout(kv_layout, cached_axis_order) ==
  [i \in 1 .. 4 |-> kv_layout[cached_axis_order[i] + 1]]

\* AttentionOp.cached_kv_shape
cached_kv_shape(kv_shape, cached_axis_order) ==
  [i \in 1 .. 4 |-> kv_shape[cached_axis_order[i] + 1]]

\* ------------------------------------------------------- cache variables
\* Module.has_variable("cache", name)
has_variable(c, name) == name \in DOMAIN c

\* Module.variable("cache", name, jnp.zeros, shape): the variable is created with
\* zeros when the collection does not hold it, and is the existing one otherwise.
variable(c, name, shape) == IF has_variable(c, name) THEN c ELSE c @@ (name :> Zeros(shape))

\* var.value = t
assign(c, name, t) == [c EXCEPT ![name] = t]

\* max_target_length - max_prefill_predict_length
cache_length == MaxTargetLength - MaxPrefillLength

\* ------------------------------------------------------------ allocation
\* AttentionOp._get_prefill_cache: creates the prefill variables that do not exist
_get_prefill_cache(c, batch, heads, kv_head_size) ==
  LET cache_logical_shape == <<heads, batch, MaxPrefillLength, kv_head_size>>
      key_shape == cached_kv_shape(cache_logical_shape, prefill_cache_axis_order)
      value_shape == cached_kv_shape(cache_logical_shape, prefill_cache_axis_order)
      c1 == variable(c, "cached_prefill_key", key_shape)
      c2 == variable(c1, "cached_prefill_value", value_shape)
      c3 == variable(c2, "cache_prefill_segment_id",
                     <<cache_logical_shape[1], MaxPrefillLength>>)
      cache_logical_shape_scale == <<batch, MaxPrefillLength, heads, 1>>
      key_shape_scale == cached_kv_shape(cache_logical_shape_scale, prefill_cache_axis_order)
      value_shape_scale == cached_kv_shape(cache_logical_shape_scale, prefill_cache_axis_order)
      c4 == variable(c3, "cached_prefill_key_scale", key_shape_scale)
      c5 == variable(c4, "cached_prefill_value_scale", value_shape_scale)
  IN IF quantize_kvcache THEN c5 ELSE c3

\* AttentionOp._get_ar_cache (with get_ar_shapes, get_ar_cached_key, get_ar_cached_value):
\* creates the autoregressive variables that do not exist
_get_ar_cache(c, batch, heads, kv_head_size) ==
  LET cache_logical_shape == <<heads, batch, cache_length, kv_head_size>>
      key_shape == cached_kv_shape(cache_logical_shape, ar_cache_axis_order)
      value_shape == cached_kv_shape(cache_logical_shape, ar_cache_axis_order)
      c1 == variable(c, "cached_ar_key", key_shape)
      c2 == variable(c1, "cached_ar_value", value_shape)
      c3 == variable(c2, "cache_ar_lengths", <<cache_logical_shape[2]>>)
      c4 == variable(c3, "cache_ar_segment_id", <<cache_logical_shape[2], cache_length>>)
      cache_logical_shape_scale == <<batch, cache_length, heads, 1>>
      key_shape_scale == cached_kv_shape(cache_logical_shape_scale, ar_cache_axis_order)
      value_shape_scale == cached_kv_shape(cache_logical_shape_scale, ar_cache_axis_order)
      c5 == variable(c4, "cached_ar_key_scale", key_shape_scale)
      c6 == variable(c5, "cached_ar_value_scale", value_shape_scale)
  IN variable(IF quantize_kvcache THEN c6 ELSE c4, "cache_ar_index", <<1>>)

\* ---------------------------------------------------------------- prefill
\* The result of a cache method: the collection it leaves and the exception it raised.
Raised(c, error) == [cache |-> c, error |-> error]
Returned(c) == [cache |-> c, error |-> "none"]

\* var.value = t, when cond holds
assign_if(cond, c, name, t) == IF cond THEN assign(c, name, t) ELSE c

\* a prefill that stores the key alone
prefill_write_key_only(c, key, value, decoder_segment_ids) ==
  assign(c, "cached_prefill_key", reshape_kv_cache(key, prefill_cache_axis_order))

\* kv_cache_prefill, lines 922-947: the writes, into the allocated collection c
prefill_write(c, key, value, decoder_segment_ids) ==
  LET prefill_key_layout == cached_kv_layout(kv_cache_logical_layout, prefill_cache_axis_order)
      prefill_value_layout == cached_kv_layout(kv_cache_logical_layout, prefill_cache_axis_order)
      key_shaped_for_cache == reshape_kv_cache(key, prefill_cache_axis_order)
      value_shaped_for_cache == reshape_kv_cache(value, prefill_cache_axis_order)
      key_q == quantize_kv(key_shaped_for_cache, IndexOf(prefill_key_layout, CACHE_KV))
      value_q == quantize_kv(value_shaped_for_cache, IndexOf(prefill_value_layout, CACHE_KV))
      c1 == assign_if(quantize_kvcache, c, "cached_prefill_key_scale", key_q.scale)
      c2 == assign_if(quantize_kvcache, c1, "cached_prefill_value_scale", value_q.scale)
      c3 == assign(c2, "cached_prefill_key",
                   IF quantize_kvcache THEN key_q.value ELSE key_shaped_for_cache)
      c4 == assign(c3, "cached_prefill_value",
                   IF quantize_kvcache THEN value_q.value ELSE value_shaped_for_cache)
  IN assign_if(decoder_segment_ids # None, c4, "cache_prefill_segment_id", decoder_segment_ids)

\* kv_cache_prefill, lines 910-920: the shape assertions on the allocated collection c;
\* those on the autoregressive tensors are made when this call has allocated them
prefill_checked(c, seeded, key, value, decoder_segment_ids) ==
  LET heads == key.shape[1]
      batch == key.shape[2]
      kv_head_size == key.shape[4]
      ar_shape == cached_kv_shape(<<heads, batch, cache_length, kv_head_size>>,
                                  ar_cache_axis_order)
      prefill_shape == cached_kv_shape(<<heads, batch, MaxPrefillLength, kv_head_size>>,
                                       prefill_cache_axis_order)
  IN IF ~seeded /\ (c["cached_ar_key"].shape # ar_shape \/ c["cached_ar_value"].shape # ar_shape)
     THEN Raised(c, "AssertionError")
     ELSE IF \/ c["cached_prefill_key"].shape # prefill_shape
             \/ c["cached_prefill_value"].shape # prefill_shape
     THEN Raised(c, "AssertionError")
     ELSE Returned(prefill_write(c, key, value, decoder_segment_ids))

\* a prefill that never initializes the autoregressive cache
prefill_unseeded(c, key, value, decoder_segment_ids) ==
  Returned(prefill_write(c, key, value, decoder_segment_ids))

\* kv_cache_prefill, lines 896-900: the autoregressive cache is initialized now when
\* the collection c holds no cache_ar_index
prefill_seeded(c, key, value, decoder_segment_ids) ==
  IF has_variable(c, "cache_ar_index")
  THEN prefill_checked(c, TRUE, key, value, decoder_segment_ids)
  ELSE prefill_checked(_get_ar_cache(c, key.shape[2], key.shape[1], key.shape[4]),
                       FALSE, key, value, decoder_segment_ids)

\* AttentionOp.kv_cache_prefill
kv_cache_prefill(c, key, value, decoder_segment_ids) ==
  prefill_seeded(_get_prefill_cache(c, key.shape[2], key.shape[1], key.shape[4]),
                 key, value, decoder_segment_ids)

\* ----------------------------------------------------------------- decode
\* a write that ignores the cursor and the lengths
write_one_token_at_zero(ar, one_token_shaped_for_cache, index, lengths, use_ragged, sequence_axis) ==
  dynamic_update_index_in_dim(ar, one_token_shaped_for_cache, 0, sequence_axis)

\* The single-token write of update_ar_key_value into one cache tensor: at every
\* position of `lengths` (ragged), or at the cursor (indexed).
write_one_token(ar, one_token_shaped_for_cache, index, lengths, use_ragged, sequence_axis) ==
  IF use_ragged
  THEN at_set(ar, lengths, sequence_axis, one_token_shaped_for_cache)
  ELSE dynamic_update_index_in_dim(ar, one_token_shaped_for_cache, index, sequence_axis)

\* The scale update of update_ar_key_value: always at the cursor one_hot_indices, on
\* the axis that holds the sequence in the key layout.
update_ar_scale(scale, one_token_scale, index, sequence_axis) ==
  dynamic_update_index_in_dim(scale, one_token_scale, index, sequence_axis)

\* update_ar_key_value, lines 1101-1102: the read of the quantized cache
update_ar_unquantize(c) ==
  IF /\ unquantize_kv(c["cached_ar_key"], c["cached_ar_key_scale"]).ok
     /\ unquantize_kv(c["cached_ar_value"], c["cached_ar_value_scale"]).ok
  THEN Returned(c)
  ELSE Raised(c, "ShapeError")

\* update_ar_key_value, lines 1083-1099: both scales are computed, then both assigned
update_ar_scales(c, key_scale, value_scale, index, sequence_axis) ==
  LET ar_key_scale == update_ar_scale(c["cached_ar_key_scale"], key_scale, index, sequence_axis)
      ar_value_scale == update_ar_scale(c["cached_ar_value_scale"], value_scale, index,
                                        sequence_axis)
  IN IF ~ar_key_scale.ok \/ ~ar_value_scale.ok
     THEN Raised(c, "ShapeError")
     ELSE update_ar_unquantize(assign(assign(c, "cached_ar_key_scale", ar_key_scale.t),
                                      "cached_ar_value_scale", ar_value_scale.t))

\* update_ar_key_value, lines 1066-1081: the value token
update_ar_value(c, one_token_value, key_scale, value_scale, index, lengths, use_ragged, sequence_axis) ==
  LET ar_value == write_one_token(c["cached_ar_value"], one_token_value, index, lengths,
                                  use_ragged, sequence_axis)
  IN IF ~ar_value.ok THEN Raised(c, "ShapeError")
     ELSE IF ~quantize_kvcache THEN Returned(assign(c, "cached_ar_value", ar_value.t))
     ELSE update_ar_scales(assign(c, "cached_ar_value", ar_value.t), key_scale, value_scale,
                           index, sequence_axis)

\* update_ar_key_value, lines 1046-1064: the key token
update_ar_key(c, one_token_key, one_token_value, key_scale, value_scale, index, lengths, use_ragged, sequence_axis) ==
  LET ar_key == write_one_token(c["cached_ar_key"], one_token_key, index, lengths,
                                use_ragged, sequence_axis)
  IN IF ~ar_key.ok THEN Raised(c, "ShapeError")
     ELSE update_ar_value(assign(c, "cached_ar_key", ar_key.t), one_token_value, key_scale,
                          value_scale, index, lengths, use_ragged, sequence_axis)

\* AttentionOp.update_ar_key_value (the key layout and the value layout are the same
\* tuple, so one sequence axis serves both)
update_ar_key_value(c, one_token_key, one_token_value, one_hot_indices, lengths, use_ragged) ==
  LET ar_key_layout == cached_kv_layout(kv_cache_logical_layout, ar_cache_axis_order)
      ar_value_layout == cached_kv_layout(kv_cache_logical_layout, ar_cache_axis_order)
      key_shaped == reshape_kv_cache(one_token_key, ar_cache_axis_order)
      value_shaped == reshape_kv_cache(one_token_value, ar_cache_axis_order)
      key_q == quantize_kv(key_shaped, IndexOf(ar_key_layout, CACHE_KV))
      value_q == quantize_kv(value_shaped, IndexOf(ar_value_layout, CACHE_KV))
  IN update_ar_key(c,
                   IF quantize_kvcache THEN key_q.value ELSE key_shaped,
                   IF quantize_kvcache THEN value_q.value ELSE value_shaped,
                   key_q.scale, value_q.scale,
                   one_hot_indices.data[<<0>>], lengths, use_ragged,
                   IndexOf(ar_key_layout, CACHE_SEQUENCE))

\* AttentionOp.prefill_cache_var_model_var: whether the read of a prefill tensor returns
prefill_cache_var_model_var_ok(c, name, scale_name) ==
  ~quantize_kvcache \/ unquantize_kv(c[name], c[scale_name]).ok

\* a decode that clears the prefill key on its way out
ar_read_prefill_clearing(c, key) ==
  Returned(assign(c, "cached_prefill_key", Zeros(c["cached_prefill_key"].shape)))

\* kv_cache_autoregressive, lines 1176-1184: the assertions on the prefill tensors and
\* the read of both regions
ar_read_prefill(c, key) ==
  LET prefill_shape == cached_kv_shape(<<key.shape[1], key.shape[2], MaxPrefillLength,
                                         key.shape[4]>>, prefill_cache_axis_order)
  IN IF \/ c["cached_prefill_key"].shape # prefill_shape
        \/ c["cached_prefill_value"].shape # prefill_shape
     THEN Raised(c, "AssertionError")
     ELSE IF /\ prefill_cache_var_model_var_ok(c, "cached_prefill_key",
                                               "cached_prefill_key_scale")
             /\ prefill_cache_var_model_var_ok(c, "cached_prefill_value",
                                               "cached_prefill_value_scale")
     THEN Returned(c)
     ELSE Raised(c, "ShapeError")

\* a cursor that advances without wrapping
next_index_unwrapped(index) == index + 1

\* a step that leaves the cursor
next_index_kept(index) == index

\* the cursor after a step: jnp.mod(cache_ar_index + 1, cache_length)
next_index(index) == (index + 1) % cache_length

\* a step that leaves the length counter
next_length_kept(length) == length

\* a length counter after a step: cache_ar_lengths.at[:].add(1)
next_length(length) == length + 1

\* kv_cache_autoregressive, lines 1163-1175: the active segment id at the cursor, the
\* cursor, the length counters; then the prefill variables
ar_counters(c, key) ==
  LET batch == key.shape[2]
      active_indicator == Full(<<batch, 1>>, DECODING_ACTIVE_SEQUENCE_INDICATOR)
      segment_id == dynamic_update_index_in_dim(c["cache_ar_segment_id"], active_indicator,
                                                c["cache_ar_index"].data[<<0>>], 1)
      c1 == assign(c, "cache_ar_segment_id", segment_id.t)
      c2 == assign(c1, "cache_ar_index",
                   [c["cache_ar_index"] EXCEPT
                      !.data = [p \in DOMAIN @ |-> next_index(@[p])]])
      c3 == assign(c2, "cache_ar_lengths",
                   [c["cache_ar_lengths"] EXCEPT
                      !.data = [p \in DOMAIN @ |-> next_length(@[p])]])
  IN IF ~segment_id.ok THEN Raised(c, "ShapeError")
     ELSE ar_read_prefill(_get_prefill_cache(c3, batch, key.shape[1], key.shape[4]), key)

\* kv_cache_autoregressive, line 1162 on: the result of update_ar_key_value
ar_updated(updated, key) ==
  IF updated.error # "none" THEN updated ELSE ar_counters(updated.cache, key)

\* kv_cache_autoregressive, lines 1154-1162: the assertions on the autoregressive tensors
ar_checked(c, key, value, use_ragged) ==
  LET ar_shape == cached_kv_shape(<<key.shape[1], key.shape[2], cache_length, key.shape[4]>>,
                                  ar_cache_axis_order)
  IN IF c["cached_ar_key"].shape # ar_shape \/ c["cached_ar_value"].shape # ar_shape
     THEN Raised(c, "AssertionError")
     ELSE ar_updated(update_ar_key_value(c, key, value, c["cache_ar_index"],
                                         c["cache_ar_lengths"], use_ragged), key)

\* a decode that allocates the autoregressive cache when it is missing
kv_cache_autoregressive_unseeded(c, key, value, use_ragged) ==
  IF key.shape[3] # 1 THEN Raised(c, "ValueError: sequence length should be 1")
  ELSE ar_checked(_get_ar_cache(c, key.shape[2], key.shape[1], key.shape[4]),
                  key, value, use_ragged)

\* a decode that takes any sequence length
kv_cache_autoregressive_any_sequence(c, key, value, use_ragged) ==
  IF ~has_variable(c, "cache_ar_index")
  THEN Raised(c, "ValueError: KV cache not seeded")
  ELSE ar_checked(_get_ar_cache(c, key.shape[2], key.shape[1], key.shape[4]),
                  key, value, use_ragged)

\* AttentionOp.kv_cache_autoregressive
kv_cache_autoregressive(c, key, value, use_ragged) ==
  IF key.shape[3] # 1 THEN Raised(c, "ValueError: sequence length should be 1")
  ELSE IF ~has_variable(c, "cache_ar_index")
  THEN Raised(c, "ValueError: KV cache not seeded")
  ELSE ar_checked(_get_ar_cache(c, key.shape[2], key.shape[1], key.shape[4]),
                  key, value, use_ragged)

\* --------------------------------------------------------------- dispatch
\* a dispatch that caches the key/value of a train call as a prefill does
kv_cache_train_cached(c, key, value, decoder_segment_ids, model_mode, use_ragged) ==
  IF key.shape # value.shape THEN Raised(c, "ValueError: mismatched shapes")
  ELSE IF model_mode \in {MODEL_MODE_TRAIN, MODEL_MODE_PREFILL}
  THEN kv_cache_prefill(c, key, value, decoder_segment_ids)
  ELSE IF model_mode = MODEL_MODE_AUTOREGRESSIVE
  THEN kv_cache_autoregressive(c, key, value, use_ragged)
  ELSE Raised(c, "ValueError: model mode not supported")

\* AttentionOp.kv_cache
kv_cache(c, key, value, decoder_segment_ids, model_mode, use_ragged) ==
  IF key.shape # value.shape THEN Raised(c, "ValueError: mismatched shapes")
  ELSE IF model_mode = MODEL_MODE_TRAIN THEN Returned(c)
  ELSE IF model_mode = MODEL_MODE_PREFILL
  THEN kv_cache_prefill(c, key, value, decoder_segment_ids)
  ELSE IF model_mode = MODEL_MODE_AUTOREGRESSIVE
  THEN kv_cache_autoregressive(c, key, value, use_ragged)
  ELSE Raised(c, "ValueError: model mode not supported")

\* ----------------------------------------------------------------- inputs
\* The key of a call: heads x batch x sequence x kv_head_size, every element naming
\* its call (stamp) and its own index, so that no two elements are equal.
KeyElem(stamp, p) ==
  stamp * 10000 + (p[1] + 1) * 1000 + (p[2] + 1) * 100 + (p[3] + 1) * 10 + p[4] + 1

KeyOf(stamp, sequence) ==
  [shape |-> <<num_kv_heads, batch_size, sequence, KvHeadSize>>,
   data |-> [p \in Idx(<<num_kv_heads, batch_size, sequence, KvHeadSize>>) |->
               KeyElem(stamp, p)]]

\* The value of a call; its elements differ from every key element.
ValueOf(stamp, sequence) ==
  [shape |-> <<num_kv_heads, batch_size, sequence, KvHeadSize>>,
   data |-> [p \in Idx(<<num_kv_heads, batch_size, sequence, KvHeadSize>>) |->
               KeyElem(stamp, p) + 5]]

\* decoder_segment_ids of a call: none, or one segment for every token
SegmentIdsOf(kind, sequence) ==
  CASE kind = "none" -> None
    [] kind = "one" -> Full(<<batch_size, sequence>>, 1)

SegmentKinds == {"none", "one"}

\* (heads, batch) of the tensors of an episode
TensorDims == {<<1, 2>>, <<2, 1>>}

\* the stamps of prefill inputs
Stamps == {1, 2}

\* the decode steps of a behaviour are bounded
MaxDecodes == cache_length + ExtraDecodes

\* the value of every length counter, 0 before allocation
Steps ==
  IF has_variable(cache, "cache_ar_lengths") THEN cache["cache_ar_lengths"].data[<<0>>] ELSE 0

\* ---------------------------------------------------------------- attention
\* The attention functions are modelled on one kv head and one batch entry of their
\* tensors, with one query head per kv head: a query is the sequence of its vectors over
\* the query positions t, a key or a value the sequence of its vectors over the key
\* positions s. Sequences are 1-based: position p of the code is element p + 1.

\* the mask value, far below every logit
DEFAULT_MASK_VALUE == -1000

\* Python's None for the decoder_segment_ids and the lengths of an attention
NoSegmentIds == <<>>
NoLengths == <<>>

\* the array of the elements f[1], ..., f[n] of a function over 1 .. n, each computed once
Array(f) == SubSeq(f, 1, Len(f))

RECURSIVE SumTo(_, _)
\* jnp.sum: f[1] + ... + f[n]
SumTo(f, n) == IF n = 0 THEN 0 ELSE f[n] + SumTo(f, n - 1)

RECURSIVE MaxTo(_, _)
\* jnp.max: the largest of f[1], ..., f[n]
MaxTo(f, n) == IF n = 1 THEN f[1] ELSE Max(f[n], MaxTo(f, n - 1))

RECURSIVE Pow2(_)
Pow2(n) == IF n = 0 THEN 1 ELSE 2 * Pow2(n - 1)

\* the widest difference of two logits that are not masked
ExpRange == MaxLogit

\* jnp.exp of a difference x <= 0 of logits, to the base 2 and in units of 2^-ExpRange:
\* exp(a + b) * exp(0) = exp(a) * exp(b) as for the exponential, and the difference of
\* a masked logit to a logit underflows to 0
exp(x) == IF x < -ExpRange THEN 0 ELSE Pow2(ExpRange + x)

\* a quotient of the code, kept as numerator (a vector over d) and denominator
divide(num, den) == [num |-> num, den |-> den]

\* two quotients are the same number in every component
SameQuotient(r1, r2) ==
  /\ Len(r1.num) = Len(r2.num)
  /\ \A d \in 1 .. Len(r1.num) : r1.num[d] * r2.den = r2.num[d] * r1.den

\* apply_mask_to_logits
apply_mask_to_logits(logits, mask) ==
  Array([i \in 1 .. Len(logits) |->
           Array([j \in 1 .. Len(logits[i]) |->
                    IF 2 * mask[i][j] >= DEFAULT_MASK_VALUE
                    THEN logits[i][j] ELSE DEFAULT_MASK_VALUE])])

\* a mask without the causal restriction in train and prefill mode
generate_attention_mask_acausal(query, key, decoder_segment_ids, model_mode) ==
  [i \in 1 .. Len(query) |->
     [j \in 1 .. Len(key) |->
        IF \/ /\ model_mode = MODEL_MODE_AUTOREGRESSIVE
              /\ decoder_segment_ids[j] = DECODING_ACTIVE_SEQUENCE_INDICATOR
           \/ /\ model_mode # MODEL_MODE_AUTOREGRESSIVE
              /\ \/ decoder_segment_ids = NoSegmentIds
                 \/ decoder_segment_ids[i] = decoder_segment_ids[j]
        THEN 0 ELSE DEFAULT_MASK_VALUE]]

\* a mask that is causal in autoregressive mode too
generate_attention_mask_causal(query, key, decoder_segment_ids, model_mode) ==
  [i \in 1 .. Len(query) |->
     [j \in 1 .. Len(key) |->
        IF /\ j <= i
           /\ \/ /\ model_mode = MODEL_MODE_AUTOREGRESSIVE
                 /\ decoder_segment_ids[j] = DECODING_ACTIVE_SEQUENCE_INDICATOR
              \/ /\ model_mode # MODEL_MODE_AUTOREGRESSIVE
                 /\ \/ decoder_segment_ids = NoSegmentIds
                    \/ decoder_segment_ids[i] = decoder_segment_ids[j]
        THEN 0 ELSE DEFAULT_MASK_VALUE]]

\* AttentionOp.generate_attention_mask: the segment mask of the mode, the causal mask
\* except in autoregressive mode, their conjunction, as 0.0 / DEFAULT_MASK_VALUE
generate_attention_mask(query, key, decoder_segment_ids, model_mode) ==
  LET mask(i, j) ==
        IF model_mode = MODEL_MODE_AUTOREGRESSIVE
        THEN decoder_segment_ids[j] = DECODING_ACTIVE_SEQUENCE_INDICATOR
        ELSE IF decoder_segment_ids # NoSegmentIds
        THEN decoder_segment_ids[i] = decoder_segment_ids[j]
        ELSE TRUE
      causal_mask(i, j) ==
        IF model_mode # MODEL_MODE_AUTOREGRESSIVE THEN j <= i ELSE TRUE
      output_mask(i, j) == mask(i, j) /\ causal_mask(i, j)
  IN Array([i \in 1 .. Len(query) |->
              Array([j \in 1 .. Len(key) |->
                       IF output_mask(i, j) THEN 0 ELSE DEFAULT_MASK_VALUE])])

\* AttentionOp.qk_product: einsum("kbgtd,kbsd->kbgts")
qk_product(query, key) ==
  Array([t \in 1 .. Len(query) |->
           Array([s \in 1 .. Len(key) |->
                    SumTo([d \in 1 .. Len(query[t]) |-> query[t][d] * key[s][d]],
                          Len(query[t]))])])

\* AttentionOp.wv_product: einsum("kbgts,kbsd->kbgtd")
wv_product(attn_weights, value) ==
  Array([t \in 1 .. Len(attn_weights) |->
           Array([d \in 1 .. Len(value[1]) |->
                    SumTo([s \in 1 .. Len(value) |-> attn_weights[t][s] * value[s][d]],
                          Len(value))])])

\* the exponentials of a chunk: jnp.exp(attn_weights - local_max)
local_exps(attn_weights, local_max) ==
  Array([t \in 1 .. Len(attn_weights) |->
           Array([s \in 1 .. Len(attn_weights[t]) |-> exp(attn_weights[t][s] - local_max[t])])])

\* the result of a chunk, from its exponentials
local_result(exps, local_max, value) ==
  [local_out |-> wv_product(exps, value),
   local_max |-> local_max,
   local_sum |-> Array([t \in 1 .. Len(exps) |-> SumTo(exps[t], Len(exps[t]))])]

\* AttentionOp.compute_local_attention: the unnormalized output of a chunk, the
\* maximum of its logits and the sum of its exponentials
compute_local_attention(attn_weights, value) ==
  LET local_max == Array([t \in 1 .. Len(attn_weights) |->
                            MaxTo(attn_weights[t], Len(attn_weights[t]))])
  IN local_result(local_exps(attn_weights, local_max), local_max, value)

\* validate_compute_axis_order: the error it raises, "none" when it returns
validate_compute_axis_order(s) ==
  LET valid_compute_axis_order == {<<0, 1, 2, 3>>, <<0, 2, 1, 3>>}
  IN IF s \notin valid_compute_axis_order
     THEN "ValueError: Invalid compute_axis_order was passed"
     ELSE "none"

\* AttentionOp.apply_attention_dot
apply_attention_dot(query, key, value, decoder_segment_ids, model_mode) ==
  LET attn_weights == qk_product(query, key)
      attn_mask == generate_attention_mask(query, key, decoder_segment_ids, model_mode)
  IN compute_local_attention(apply_mask_to_logits(attn_weights, attn_mask), value)

\* kernels.ragged_attention.ragged_mqa as ragged_attention uses it: the softmax over the
\* key positions below the length of the batch entry; ragged_attention returns its
\* output times its sum, its maximum and its sum
ragged_attention(query, key, value, lengths) ==
  LET mask == Array([t \in 1 .. Len(query) |->
                       Array([s \in 1 .. Len(key) |->
                                IF s - 1 < lengths[1] THEN 0 ELSE DEFAULT_MASK_VALUE])])
  IN compute_local_attention(apply_mask_to_logits(qk_product(query, key), mask), value)

\* AttentionOp.apply_attention
apply_attention(query, key, value, decoder_segment_ids, lengths, model_mode, use_ragged) ==
  IF use_ragged /\ model_mode = MODEL_MODE_AUTOREGRESSIVE
  THEN ragged_attention(query, key, value,
                        IF lengths = NoLengths
                        THEN <<SumTo(decoder_segment_ids, Len(decoder_segment_ids))>>
                        ELSE lengths)
  ELSE apply_attention_dot(query, key, value, decoder_segment_ids, model_mode)

\* AttentionOp.normalize_attention
normalize_attention(local_outs, local_maxes, local_sums) ==
  LET chunks == Len(local_outs)
      global_max == [t \in 1 .. Len(local_outs[1]) |->
                       MaxTo([i \in 1 .. chunks |-> local_maxes[i][t]], chunks)]
      weight(i, t) == exp(local_maxes[i][t] - global_max[t])
      global_sum == [t \in 1 .. Len(local_outs[1]) |->
                       SumTo([i \in 1 .. chunks |-> weight(i, t) * local_sums[i][t]], chunks)]
  IN [t \in 1 .. Len(local_outs[1]) |->
        divide([d \in 1 .. Len(local_outs[1][t]) |->
                  SumTo([i \in 1 .. chunks |-> weight(i, t) * local_outs[i][t][d]], chunks)],
               global_sum[t])]

\* AttentionOp.__call__, the result of one chunk: its output / its sum
single_chunk(local) ==
  [t \in 1 .. Len(local.local_out) |-> divide(local.local_out[t], local.local_sum[t])]

\* AttentionOp.prefill_cache_var_model_var and the read of update_ar_key_value, of a
\* cache that is not quantized: revert_kv_cache of the cached tensor, of which the
\* vectors over the sequence of the head h and the batch entry b are taken. Element
\* (h, b, s, d) of the reverted tensor is the element of the cached tensor whose index
\* on axis i is the component cached_axis_order[i] of (h, b, s, d).
cached_kv(c, name, cached_axis_order, h, b) ==
  Array([s \in 1 .. c[name].shape[IndexOf(cached_axis_order, 2) + 1] |->
           Array([d \in 1 .. c[name].shape[IndexOf(cached_axis_order, 3) + 1] |->
                    c[name].data[[i \in 1 .. 4 |->
                                    (<<h, b, s - 1, d - 1>>)[cached_axis_order[i] + 1]]]])])

\* the row of one batch entry of a segment-id tensor (batch, sequence)
SegmentRow(t, b) == Array([s \in 1 .. t.shape[2] |-> t.data[<<b, s - 1>>]])

\* AttentionOp.__call__ in autoregressive mode, lines 1251-1309, after kv_cache has
\* returned the collection c: the attention of the one-token query over the prefill
\* chunk and over the autoregressive chunk, use_ragged being True, and their merge;
\* for the kv head h and the batch entry b
call_autoregressive(c, query, h, b) ==
  LET prefill == apply_attention(
                   query,
                   cached_kv(c, "cached_prefill_key", prefill_cache_axis_order, h, b),
                   cached_kv(c, "cached_prefill_value", prefill_cache_axis_order, h, b),
                   SegmentRow(c["cache_prefill_segment_id"], b), NoLengths,
                   MODEL_MODE_AUTOREGRESSIVE, TRUE)
      ar == apply_attention(
              query,
              cached_kv(c, "cached_ar_key", ar_cache_axis_order, h, b),
              cached_kv(c, "cached_ar_value", ar_cache_axis_order, h, b),
              SegmentRow(c["cache_ar_segment_id"], b), <<c["cache_ar_lengths"].data[<<b>>]>>,
              MODEL_MODE_AUTOREGRESSIVE, TRUE)
  IN normalize_attention(<<prefill.local_out, ar.local_out>>,
                         <<prefill.local_max, ar.local_max>>,
                         <<prefill.local_sum, ar.local_sum>>)

\* an output of __call__ for one head and one batch entry, the quotients over the
\* query positions, as an array
Quotients(out) ==
  Array([t \in 1 .. Len(out) |-> [num |-> Array(out[t].num), den |-> out[t].den]])

\* the vectors over the sequence of the head h and the batch entry b of a key or value
\* in logical layout
kv_rows(kv, h, b) ==
  Array([s \in 1 .. kv.shape[3] |->
           Array([d \in 1 .. kv.shape[4] |-> kv.data[<<h, b, s - 1, d - 1>>]])])

\* the segment ids of the batch entry b of the decoder_segment_ids of a call
segment_ids_row(decoder_segment_ids, b) ==
  IF decoder_segment_ids = None THEN NoSegmentIds ELSE SegmentRow(decoder_segment_ids, b)

\* a __call__ that attends, in autoregressive mode, the cache as it was before the write
call_attending_before_write(c, query, key, value, decoder_segment_ids, model_mode, h, b) ==
  LET result == kv_cache(c, key, value, decoder_segment_ids, model_mode, TRUE)
  IN IF result.error # "none"
     THEN [cache |-> result.cache, error |-> result.error, out |-> <<>>]
     ELSE IF model_mode = MODEL_MODE_AUTOREGRESSIVE
     THEN [cache |-> result.cache, error |-> "none",
           out |-> Quotients(call_autoregressive(c, query, h, b))]
     ELSE [cache |-> result.cache, error |-> "none",
           out |-> Quotients(single_chunk(
                               apply_attention(query, kv_rows(key, h, b), kv_rows(value, h, b),
                                               segment_ids_row(decoder_segment_ids, b),
                                               NoLengths, model_mode, TRUE)))]

\* AttentionOp.__call__: kv_cache with use_ragged = True (lines 1241-1245), then the
\* attention over the chunk kv_cache returned first, the key and value of the call in
\* train and prefill mode (lines 1251-1259), returned as output / sum when there is no
\* second chunk (lines 1286-1289), and in autoregressive mode the attention over both
\* chunks of the collection kv_cache leaves, merged (lines 1295-1311); the output for
\* the kv head h and the batch entry b
call(c, query, key, value, decoder_segment_ids, model_mode, h, b) ==
  LET use_ragged == TRUE
      result == kv_cache(c, key, value, decoder_segment_ids, model_mode, use_ragged)
  IN IF result.error # "none"
     THEN [cache |-> result.cache, error |-> result.error, out |-> <<>>]
     ELSE IF model_mode = MODEL_MODE_AUTOREGRESSIVE
     THEN [cache |-> result.cache, error |-> "none",
           out |-> Quotients(call_autoregressive(result.cache, query, h, b))]
     ELSE [cache |-> result.cache, error |-> "none",
           out |-> Quotients(single_chunk(
                               apply_attention(query, kv_rows(key, h, b), kv_rows(value, h, b),
                                               segment_ids_row(decoder_segment_ids, b),
                                               NoLengths, model_mode, use_ragged)))]

\* ---------------------------------------------------------------- actions
\* no attention computed yet
NoAttention ==
  [op |-> "none", model_mode |-> "none", use_ragged |-> FALSE, query |-> <<>>, key |-> <<>>,
   weights |-> <<>>, segment_ids |-> <<>>, lengths |-> <<>>, split |-> 0, local |-> <<>>,
   out |-> <<>>]

Init ==
  /\ attn = NoAttention
  /\ \E dims \in TensorDims : num_kv_heads = dims[1] /\ batch_size = dims[2]
  /\ quantize_kvcache \in BOOLEAN
  /\ \E orders \in CacheAxisOrders :
       prefill_cache_axis_order = orders[1] /\ ar_cache_axis_order = orders[2]
  /\ cache = <<>>
  /\ last = [model_mode |-> "none", sequence |-> 0, value_sequence |-> 0, stamp |-> 0,
             segment_ids |-> "none", use_ragged |-> FALSE, error |-> "none"]

\* One call kv_cache(key, value, decoder_segment_ids, model_mode, use_ragged)
Call(model_mode, stamp, sequence, value_sequence, segment_ids, use_ragged) ==
  LET result == kv_cache(cache, KeyOf(stamp, sequence), ValueOf(stamp, value_sequence),
                         SegmentIdsOf(segment_ids, sequence), model_mode, use_ragged)
  IN /\ cache' = result.cache
     /\ last' = [model_mode |-> model_mode, sequence |-> sequence,
                 value_sequence |-> value_sequence, stamp |-> stamp,
                 segment_ids |-> segment_ids, use_ragged |-> use_ragged,
                 error |-> result.error]
     /\ UNCHANGED <<config, attn>>

Train ==
  Call(MODEL_MODE_TRAIN, 1, MaxPrefillLength, MaxPrefillLength, "one", TRUE)

Prefill ==
  \E stamp \in Stamps, sequence \in 1 .. MaxPrefillLength, segment_ids \in SegmentKinds :
    Call(MODEL_MODE_PREFILL, stamp, sequence, sequence, segment_ids, TRUE)

\* a call whose key and value shapes differ
Mismatched ==
  \E model_mode \in {MODEL_MODE_PREFILL, MODEL_MODE_AUTOREGRESSIVE} :
    Call(model_mode, 1, 1, 2, "none", TRUE)

\* the token of decode step n is stamped n
Autoregressive ==
  \E sequence \in 1 .. 2, use_ragged \in BOOLEAN :
    /\ Steps < MaxDecodes
    /\ Call(MODEL_MODE_AUTOREGRESSIVE, Steps + 1, sequence, sequence, "none", use_ragged)

Unsupported ==
  Call("unsupported", 1, 1, 1, "none", TRUE)

Next == Train \/ Prefill \/ Mismatched \/ Autoregressive \/ Unsupported

Spec == Init /\ [][Next]_vars

\* ------------------------------------------------- the attention functions
\* The attention functions applied to inputs drawn from bounded sets.

\* a value whose vector at position s is the s-th unit vector: the output of an
\* attention over it is the vector of the weights of the key positions
OneHot(n) == Array([s \in 1 .. n |-> Array([d \in 1 .. n |-> IF d = s THEN 1 ELSE 0])])

\* queries and keys of n positions, of one component
Queries(n) == [1 .. n -> [1 .. 1 -> 0 .. 1]]
Keys(n) == [1 .. n -> [1 .. 1 -> 0 .. MaxLogit]]

\* logits of a row of n key positions, masked ones included
Logits(n) == [1 .. n -> (0 .. MaxLogit) \cup {DEFAULT_MASK_VALUE}]

InitAttention ==
  /\ num_kv_heads = 1 /\ batch_size = 1 /\ quantize_kvcache = FALSE
  /\ prefill_cache_axis_order = <<0, 1, 2, 3>> /\ ar_cache_axis_order = <<0, 1, 2, 3>>
  /\ cache = <<>>
  /\ last = [model_mode |-> "none", sequence |-> 0, value_sequence |-> 0, stamp |-> 0,
             segment_ids |-> "none", use_ragged |-> FALSE, error |-> "none"]
  /\ attn = NoAttention

\* apply_attention on one chunk, as __call__ applies it; a behaviour is one application
Attend(model_mode, query, key, decoder_segment_ids, lengths, use_ragged) ==
  LET local == apply_attention(query, key, OneHot(Len(key)), decoder_segment_ids, lengths,
                               model_mode, use_ragged)
  IN /\ attn = NoAttention
     /\ attn' = [op |-> "attend", model_mode |-> model_mode, use_ragged |-> use_ragged,
                 query |-> query, key |-> key, weights |-> <<>>,
                 segment_ids |-> decoder_segment_ids, lengths |-> lengths, split |-> 0,
                 local |-> <<local>>, out |-> single_chunk(local)]
     /\ UNCHANGED <<config, cache, last>>

\* __call__ in train or prefill mode: the attention over the key and value of the call
AttendSequence ==
  \E model_mode \in {MODEL_MODE_TRAIN, MODEL_MODE_PREFILL}, n \in 1 .. MaxPrefillLength :
    \E query \in Queries(n), key \in Keys(n),
       decoder_segment_ids \in {NoSegmentIds} \cup [1 .. n -> 1 .. 2] :
      Attend(model_mode, query, key, decoder_segment_ids, NoLengths, model_mode = MODEL_MODE_TRAIN)

\* __call__ in autoregressive mode: the attention of the one-token query over the
\* autoregressive chunk, by the mask or by the lengths
AttendCache ==
  \E n \in 1 .. cache_length, use_ragged \in BOOLEAN :
    \E query \in Queries(1), key \in Keys(n), decoder_segment_ids \in [1 .. n -> 0 .. 2],
       lengths \in {<<l>> : l \in 0 .. n} :
      Attend(MODEL_MODE_AUTOREGRESSIVE, query, key, decoder_segment_ids, lengths, use_ragged)

\* __call__, lines 1307-1311: the merge of the results of two contiguous chunks of a
\* row of logits
MergeChunks ==
  \E n \in 2 .. MaxTargetLength :
    \E weights \in Logits(n), split \in 1 .. n - 1 :
      LET value == OneHot(n)
          prefill == compute_local_attention(<<SubSeq(weights, 1, split)>>,
                                             SubSeq(value, 1, split))
          ar == compute_local_attention(<<SubSeq(weights, split + 1, n)>>,
                                        SubSeq(value, split + 1, n))
      IN /\ attn = NoAttention
         /\ attn' = [op |-> "merge", model_mode |-> MODEL_MODE_AUTOREGRESSIVE,
                     use_ragged |-> FALSE, query |-> <<>>, key |-> <<>>, weights |-> weights,
                     segment_ids |-> <<>>, lengths |-> <<>>, split |-> split,
                     local |-> <<prefill, ar>>,
                     out |-> normalize_attention(<<prefill.local_out, ar.local_out>>,
                                                 <<prefill.local_max, ar.local_max>>,
                                                 <<prefill.local_sum, ar.local_sum>>)]
         /\ UNCHANGED <<config, cache, last>>

\* the permutations of the four axes
AxisOrders == {order \in [1 .. 4 -> 0 .. 3] : \A a \in 0 .. 3 : \E i \in 1 .. 4 : order[i] = a}

\* logical shapes (heads, batch, sequence, kv) of a key or value
LogicalShapes ==
  {<<dims[1], dims[2], sequence, kv>> :
     dims \in TensorDims, sequence \in MaxPrefillLength + 1 .. MaxTargetLength,
     kv \in KvHeadSize .. KvHeadSize + 1}

\* a key or value of a logical shape, every element its own
Stamped(stamp, shape) == [shape |-> shape, data |-> [p \in Idx(shape) |-> KeyElem(stamp, p)]]

\* reshape_kv_cache and revert_kv_cache on a tensor in logical layout, as
\* kv_cache_prefill (lines 919-947) and kv_cache_autoregressive (lines 1173-1184)
\* apply them to what they store and read
Relayout ==
  \E cached_axis_order \in AxisOrders, shape \in LogicalShapes, stamp \in Stamps :
    LET kv == Stamped(stamp, shape)
        cached == reshape_kv_cache(kv, cached_axis_order)
    IN /\ attn = NoAttention
       /\ attn' = [op |-> "layout", cached_axis_order |-> cached_axis_order, kv |-> kv,
                   cached |-> cached,
                   layout |-> cached_kv_layout(kv_cache_logical_layout, cached_axis_order),
                   reverted |-> revert_kv_cache(cached, cached_axis_order)]
       /\ UNCHANGED <<config, cache, last>>

NextAttention == AttendSequence \/ AttendCache \/ MergeChunks \/ Relayout

SpecAttention == InitAttention /\ [][NextAttention]_vars

\* ------------------------------------------------- grouped-query attention
\* The products of the attention on whole tensors, the query with its own number of
\* heads. Tensors are records of a shape and of data indexed by 0-based tuples.

\* the indices of an array of rank 5
Idx5(shape) ==
  (0 .. shape[1] - 1) \X (0 .. shape[2] - 1) \X (0 .. shape[3] - 1) \X (0 .. shape[4] - 1)
    \X (0 .. shape[5] - 1)

\* the indices of an array of rank 4 or 5
IdxOf(shape) == IF Len(shape) = 5 THEN Idx5(shape) ELSE Idx(shape)

\* the position of index p in the row-major order of an array of a shape, over the
\* first i axes
RECURSIVE RavelTo(_, _, _)
RavelTo(p, shape, i) == IF i = 0 THEN 0 ELSE RavelTo(p, shape, i - 1) * shape[i] + p[i]

\* jnp.ravel_multi_index
ravel_multi_index(p, shape) == RavelTo(p, shape, Len(shape))

\* the number of elements of the axes after axis i
RECURSIVE SizeAfter(_, _)
SizeAfter(shape, i) == IF i >= Len(shape) THEN 1 ELSE shape[i + 1] * SizeAfter(shape, i + 1)

\* jnp.unravel_index
unravel_index(flat, shape) ==
  [i \in 1 .. Len(shape) |-> (flat \div SizeAfter(shape, i)) % shape[i]]

\* jnp.reshape: the elements in row-major order, under the new shape
reshape(a, shape) ==
  [shape |-> shape,
   data |-> [q \in IdxOf(shape) |->
               a.data[unravel_index(ravel_multi_index(q, shape), a.shape)]]]

\* the sum of f over 0 .. n - 1
RECURSIVE SumBelow(_, _)
SumBelow(f, n) == IF n = 0 THEN 0 ELSE SumBelow(f, n - 1) + f[n - 1]

\* jnp.einsum("kbgtd,kbsd->kbgts", query, key)
einsum_kbgtd_kbsd(query, key) ==
  LET shape == <<query.shape[1], query.shape[2], query.shape[3], query.shape[4], key.shape[3]>>
  IN [shape |-> shape,
      data |-> [q \in Idx5(shape) |->
                  SumBelow([d \in 0 .. query.shape[5] - 1 |->
                              query.data[<<q[1], q[2], q[3], q[4], d>>]
                                * key.data[<<q[1], q[2], q[5], d>>]],
                           query.shape[5])]]

\* jnp.einsum("kbgts,kbsd->kbgtd", attn_weights, value)
einsum_kbgts_kbsd(attn_weights, value) ==
  LET shape == <<attn_weights.shape[1], attn_weights.shape[2], attn_weights.shape[3],
                 attn_weights.shape[4], value.shape[4]>>
  IN [shape |-> shape,
      data |-> [q \in Idx5(shape) |->
                  SumBelow([s \in 0 .. attn_weights.shape[5] - 1 |->
                              attn_weights.data[<<q[1], q[2], q[3], q[4], s>>]
                                * value.data[<<q[1], q[2], s, q[5]>>]],
                           attn_weights.shape[5])]]

\* AttentionOp.check_attention_inputs on the shapes of query, key and value
check_attention_inputs(query, key, value) ==
  CASE Len(key) # Len(value) -> "AssertionError: k, v must have same rank."
    [] SubSeq(query, 1, Len(query) - 3) # SubSeq(key, 1, Len(key) - 3)
         \/ SubSeq(key, 1, Len(key) - 3) # SubSeq(value, 1, Len(value) - 3)
         -> "AssertionError: q, k, v batch dims must match."
    [] key[Len(key) - 1] # value[Len(value) - 1]
         -> "AssertionError: k, v num_kv_heads must match."
    [] key[Len(key) - 2] # value[Len(value) - 2] -> "AssertionError: k, v lengths must match."
    [] query[Len(query)] # key[Len(key)] -> "AssertionError: q, k depths must match."
    [] OTHER -> "none"

\* the reshape of the query in AttentionOp.qk_product
reshape_query(query, n_kv) ==
  reshape(query, <<n_kv, query.shape[2], query.shape[1] \div n_kv, query.shape[3],
                   query.shape[4]>>)

\* AttentionOp.qk_product on whole tensors: query (n, b, t, d), key (n_kv, b, s, d)
qk_product_tensor(query, key) ==
  LET n_kv == key.shape[1]
  IN IF n_kv # num_kv_heads
     THEN [error |-> "AssertionError", result |-> None]
     ELSE [error |-> "none",
           result |-> einsum_kbgtd_kbsd(reshape_query(query, n_kv), key)]

\* AttentionOp.wv_product on whole tensors: weights (n_kv, b, g, t, s), value (n_kv, b, s, d)
wv_product_tensor(attn_weights, value) ==
  LET out == einsum_kbgts_kbsd(attn_weights, value)
  IN reshape(out, <<out.shape[1] * out.shape[3], out.shape[2], out.shape[4], out.shape[5]>>)

\* the numbers of query heads for each kv head
GroupSizes == 1 .. 2

\* a tensor of a shape whose elements are all different: offset + step * position
Numbered(shape, offset, step) ==
  [shape |-> shape, data |-> [p \in Idx(shape) |-> offset + step * ravel_multi_index(p, shape)]]

InitGrouped ==
  /\ num_kv_heads \in 1 .. 2 /\ batch_size \in 1 .. 2 /\ quantize_kvcache = FALSE
  /\ prefill_cache_axis_order = <<0, 1, 2, 3>> /\ ar_cache_axis_order = <<0, 1, 2, 3>>
  /\ cache = <<>>
  /\ last = [model_mode |-> "none", sequence |-> 0, value_sequence |-> 0, stamp |-> 0,
             segment_ids |-> "none", use_ragged |-> FALSE, error |-> "none"]
  /\ attn = NoAttention

\* apply_attention, line 193: the checks of the shapes of a query of n_kv * g heads
\* and of a key and a value of n_kv heads
CheckInputs ==
  \E n_kv \in 1 .. 2, g \in GroupSizes, t \in 1 .. MaxPrefillLength,
      s \in 1 .. MaxPrefillLength, value_s \in 1 .. MaxPrefillLength :
    LET query == <<n_kv * g, batch_size, t, KvHeadSize>>
        key == <<n_kv, batch_size, s, KvHeadSize>>
        value == <<n_kv, batch_size, value_s, KvHeadSize>>
    IN /\ attn = NoAttention
       /\ attn' = [op |-> "check", query |-> query, key |-> key, value |-> value,
                   error |-> check_attention_inputs(query, key, value)]
       /\ UNCHANGED <<config, cache, last>>

\* qk_product and wv_product, as apply_attention_dot and compute_local_attention call
\* them, on a query of n_kv * g heads
Products ==
  \E n_kv \in 1 .. 2, g \in GroupSizes, t \in 1 .. MaxPrefillLength,
      s \in 1 .. MaxPrefillLength, d \in 1 .. KvHeadSize, stamp \in Stamps :
    LET query == Numbered(<<n_kv * g, batch_size, t, d>>, stamp, 1)
        key == Numbered(<<n_kv, batch_size, s, d>>, 1, stamp + 1)
        value == Numbered(<<n_kv, batch_size, s, d>>, 2, stamp)
        product == qk_product_tensor(query, key)
    IN /\ attn = NoAttention
       /\ attn' = [op |-> "products", g |-> g, query |-> query, key |-> key, value |-> value,
                   error |-> product.error, attn_weights |-> product.result,
                   out |-> IF product.error = "none"
                           THEN wv_product_tensor(product.result, value) ELSE None]
       /\ UNCHANGED <<config, cache, last>>

NextGrouped == CheckInputs \/ Products

SpecGrouped == InitGrouped /\ [][NextGrouped]_vars

\* ----------------------------------------------------------------- claims
\* the region capacity of the autoregressive cache
capacity == MaxTargetLength - MaxPrefillLength

\* what the claims read of a collection c
cacheIndex(c) == c["cache_ar_index"].data[<<0>>]
lengthOf(c, b) == c["cache_ar_lengths"].data[<<b>>]
Allocated(c) == has_variable(c, "cache_ar_index")
Batch == 0 .. batch_size - 1

\* the call l is a call of model_mode that returned
Succeeded(l, model_mode) == l.model_mode = model_mode /\ l.error = "none"

\* C1, the step: a decode call that returns leaves the cursor at (cursor + 1) mod capacity
C1_Step ==
  Succeeded(last', MODEL_MODE_AUTOREGRESSIVE)
    => cacheIndex(cache') = (cacheIndex(cache) + 1) % capacity

\* C1, the range: once allocated, 0 <= cursor < capacity
C1_Range ==
  Allocated(cache)
    => cacheIndex(cache) >= 0 /\ cacheIndex(cache) < capacity

\* C1: every successful decode call advances the cursor to (cursor + 1) mod capacity,
\* capacity = maxTargetLength - maxPrefillLength, and 0 <= cursor < capacity holds in
\* every reachable state after allocation.
C1_CursorAdvancesModCapacity == [](C1_Range) /\ [][C1_Step]_vars

\* C1 happens: a decode call returned and wrapped the cursor back to 0
C1_Witness ==
  /\ Succeeded(last, MODEL_MODE_AUTOREGRESSIVE)
  /\ cacheIndex(cache) = 0
  /\ lengthOf(cache, 0) = capacity

\* the index, in a tensor cached in axis order `order`, of the logical position
\* (head, batch, sequence, kv) = logical
CachedIdx(order, logical) == [i \in 1 .. 4 |-> logical[order[i] + 1]]

\* slot p of the autoregressive key (value) cache of c holds, unquantized, the
\* one-token key (value) stamped `stamp`
ArKeySlotHolds(c, p, stamp) ==
  \A h \in 0 .. num_kv_heads - 1, b \in Batch, d \in 0 .. KvHeadSize - 1 :
    c["cached_ar_key"].data[CachedIdx(ar_cache_axis_order, <<h, b, p, d>>)]
      = KeyOf(stamp, 1).data[<<h, b, 0, d>>]
ArValueSlotHolds(c, p, stamp) ==
  \A h \in 0 .. num_kv_heads - 1, b \in Batch, d \in 0 .. KvHeadSize - 1 :
    c["cached_ar_value"].data[CachedIdx(ar_cache_axis_order, <<h, b, p, d>>)]
      = ValueOf(stamp, 1).data[<<h, b, 0, d>>]
ArSlotHolds(c, p, stamp) == ArKeySlotHolds(c, p, stamp) /\ ArValueSlotHolds(c, p, stamp)

\* C2, at capacity: after exactly capacity decode steps the cursor is 0 again and
\* every slot p still holds the token of step p + 1, the oldest write included
C2_AtCapacity ==
  (Allocated(cache) /\ lengthOf(cache, 0) = capacity)
    => /\ cacheIndex(cache) = 0
       /\ ~quantize_kvcache => \A p \in 0 .. capacity - 1 : ArSlotHolds(cache, p, p + 1)

\* C2, the wrap: the indexed decode step after capacity steps overwrites the oldest
\* write, slot 0, with the newest token
C2_Wrap ==
  (/\ Succeeded(last', MODEL_MODE_AUTOREGRESSIVE) /\ ~last'.use_ragged
   /\ ~quantize_kvcache /\ lengthOf(cache, 0) = capacity)
    => ArSlotHolds(cache', 0, capacity + 1)

\* C2 (amended): after exactly capacity indexed decode steps from a freshly allocated
\* autoregressive cache the cursor is back at its initial value 0 and every slot
\* holds the token of its own step, the oldest write still in slot 0; it is the next
\* indexed step, step capacity + 1, that overwrites the oldest write with the newest.
C2_CursorWrapKeepsOldestUntilNextStep == [](C2_AtCapacity) /\ [][C2_Wrap]_vars

\* C2 happens: step capacity + 1, indexed, has overwritten slot 0
C2_Witness ==
  /\ Succeeded(last, MODEL_MODE_AUTOREGRESSIVE) /\ ~last.use_ragged
  /\ ~quantize_kvcache
  /\ lengthOf(cache, 0) = capacity + 1
  /\ ArSlotHolds(cache, 0, capacity + 1)
  /\ cacheIndex(cache) = 1 % capacity

\* C2 as stated: the indexed decode step that completes capacity steps leaves the
\* cursor at its initial value and the oldest write, slot 0, overwritten by the
\* newest token, that of step capacity.
C2_OldestOverwrittenAtCapacity ==
  [][(/\ Succeeded(last', MODEL_MODE_AUTOREGRESSIVE) /\ ~last'.use_ragged
      /\ ~quantize_kvcache /\ lengthOf(cache', 0) = capacity)
       => cacheIndex(cache') = 0 /\ ArSlotHolds(cache', 0, capacity)]_vars

\* C3: a decode call made while the autoregressive cache has never been allocated
\* fails, with the initialization error when its key and value are one token of the
\* same shape, and creates or changes no cache variable.
C3_DecodeBeforeAllocationFails ==
  [][(last'.model_mode = MODEL_MODE_AUTOREGRESSIVE /\ ~Allocated(cache))
       => /\ last'.error # "none"
          /\ (last'.sequence = 1 /\ last'.value_sequence = 1)
               => last'.error = "ValueError: KV cache not seeded"
          /\ cache' = cache]_vars

\* C3 happens: a one-token decode on the empty collection raised the initialization error
C3_Witness ==
  /\ last.model_mode = MODEL_MODE_AUTOREGRESSIVE
  /\ last.sequence = 1 /\ last.value_sequence = 1
  /\ last.error = "ValueError: KV cache not seeded"
  /\ cache = <<>>

\* C4: a decode call whose key or value sequence length is not 1 fails in every cache
\* state, allocated or not, and leaves the cursor, the length counters, the segment
\* ids and the cache contents unchanged.
C4_DecodeSequenceNotOneFails ==
  [][(/\ last'.model_mode = MODEL_MODE_AUTOREGRESSIVE
      /\ (last'.sequence # 1 \/ last'.value_sequence # 1))
       => last'.error # "none" /\ cache' = cache]_vars

\* C4 happens: a two-token decode was refused after decode steps had filled slots
C4_Witness ==
  /\ last.model_mode = MODEL_MODE_AUTOREGRESSIVE
  /\ last.sequence = 2
  /\ last.error = "ValueError: sequence length should be 1"
  /\ Allocated(cache) /\ lengthOf(cache, 0) >= 1

\* C4 happens before allocation too
C4_WitnessUnallocated ==
  /\ last.model_mode = MODEL_MODE_AUTOREGRESSIVE
  /\ last.sequence = 2
  /\ last.error = "ValueError: sequence length should be 1"
  /\ ~Allocated(cache)

\* C5, the step: a decode call that returns adds exactly one to every length counter
C5_Increment ==
  Succeeded(last', MODEL_MODE_AUTOREGRESSIVE)
    => \A b \in Batch : lengthOf(cache', b) = lengthOf(cache, b) + 1

\* C5, the frame: any other call leaves every allocated length counter as it is, and
\* allocation starts every counter at 0
C5_OnlySuccessfulDecodeCounts ==
  ~Succeeded(last', MODEL_MODE_AUTOREGRESSIVE)
    => /\ Allocated(cache) => \A b \in Batch : lengthOf(cache', b) = lengthOf(cache, b)
       /\ (~Allocated(cache) /\ Allocated(cache')) => \A b \in Batch : lengthOf(cache', b) = 0

\* C5: each successful decode call increments the length counter of every batch entry
\* by exactly one and nothing else changes a counter, so that after n successful
\* decode calls since allocation every counter equals n; the counters never decrease.
C5_LengthsCountSuccessfulDecodes == [][C5_Increment /\ C5_OnlySuccessfulDecodeCounts]_vars

\* C5, what the code keeps: a returning decode adds one to every counter, and no call
\* decreases a counter
C5_LengthsIncrementAndNeverDecrease ==
  [][/\ C5_Increment
     /\ Allocated(cache) => \A b \in Batch : lengthOf(cache', b) >= lengthOf(cache, b)]_vars

\* C5 happens: a decode call raised after it had incremented the counters, so the
\* counters exceed the number of decode calls that returned
C5_Witness ==
  /\ last.model_mode = MODEL_MODE_AUTOREGRESSIVE
  /\ last.error = "AssertionError"
  /\ \A b \in Batch : lengthOf(cache, b) = 1

Heads == 0 .. num_kv_heads - 1
KvDims == 0 .. KvHeadSize - 1
Slots == 0 .. capacity - 1

\* slot p of batch entry b of the autoregressive key and value caches of c holds,
\* unquantized, the one-token key and value stamped `stamp`
ArEntrySlotHolds(c, b, p, stamp) ==
  \A h \in Heads, d \in KvDims :
    /\ c["cached_ar_key"].data[CachedIdx(ar_cache_axis_order, <<h, b, p, d>>)]
         = KeyOf(stamp, 1).data[<<h, b, 0, d>>]
    /\ c["cached_ar_value"].data[CachedIdx(ar_cache_axis_order, <<h, b, p, d>>)]
         = ValueOf(stamp, 1).data[<<h, b, 0, d>>]

\* slot p of batch entry b of the autoregressive key and value caches is the same in
\* c1 and c2
ArEntrySlotSame(c1, c2, b, p) ==
  \A h \in Heads, d \in KvDims :
    /\ c1["cached_ar_key"].data[CachedIdx(ar_cache_axis_order, <<h, b, p, d>>)]
         = c2["cached_ar_key"].data[CachedIdx(ar_cache_axis_order, <<h, b, p, d>>)]
    /\ c1["cached_ar_value"].data[CachedIdx(ar_cache_axis_order, <<h, b, p, d>>)]
         = c2["cached_ar_value"].data[CachedIdx(ar_cache_axis_order, <<h, b, p, d>>)]

\* a decode call in ragged mode returned, in a configuration whose cache elements
\* identify the token they come from
RaggedDecode(l) == Succeeded(l, MODEL_MODE_AUTOREGRESSIVE) /\ l.use_ragged /\ ~quantize_kvcache

\* C6, the frame: a ragged decode leaves every slot (b, p), p # length[b], as it was
C6_Frame ==
  RaggedDecode(last')
    => \A b \in Batch, p \in Slots :
         p # lengthOf(cache, b) => ArEntrySlotSame(cache, cache', b, p)

\* C6, the write: a ragged decode puts b's token in slot (b, length[b])
C6_Write ==
  RaggedDecode(last')
    => \A b \in Batch :
         /\ lengthOf(cache, b) \in Slots
         /\ ArEntrySlotHolds(cache', b, lengthOf(cache, b), last'.stamp)

\* C6: in ragged addressing mode a decode call writes batch entry b's new key/value at
\* sequence position length[b], the counter before the increment, and at no other
\* position: every autoregressive slot (b, p) with p # length[b] keeps its content.
C6_RaggedWritesAtLength == [][C6_Write /\ C6_Frame]_vars

\* C6, what the code keeps: the frame always, the write while length[b] < capacity
C6_RaggedWritesAtLengthBelowCapacity ==
  [][/\ C6_Frame
     /\ RaggedDecode(last')
          => \A b \in Batch :
               lengthOf(cache, b) \in Slots
                 => ArEntrySlotHolds(cache', b, lengthOf(cache, b), last'.stamp)]_vars

\* C6 happens: a ragged decode returned with length[b] = capacity before it, and its
\* token is in no slot
C6_Witness ==
  /\ RaggedDecode(last)
  /\ lengthOf(cache, 0) = capacity + 1
  /\ \A b \in Batch, p \in Slots : ~ArEntrySlotHolds(cache, b, p, last.stamp)

\* C7: after every successful decode call the segment-id slot the call marked active,
\* the slot at the cursor, is the slot of the sequence position at which the call
\* wrote the new key/value token, for every batch entry and after any number of
\* decode steps, more than capacity included.
C7_ActiveSlotIsWrittenSlot ==
  [][(Succeeded(last', MODEL_MODE_AUTOREGRESSIVE) /\ ~quantize_kvcache)
       => \A b \in Batch :
            /\ cache'["cache_ar_segment_id"].data[<<b, cacheIndex(cache)>>]
                 = DECODING_ACTIVE_SEQUENCE_INDICATOR
            /\ ArEntrySlotHolds(cache', b, cacheIndex(cache), last'.stamp)]_vars

\* C7, what the code keeps: the indexed mode marks the slot it writes
C7_IndexedActiveSlotIsWrittenSlot ==
  [][(Succeeded(last', MODEL_MODE_AUTOREGRESSIVE) /\ ~quantize_kvcache /\ ~last'.use_ragged)
       => \A b \in Batch :
            /\ cache'["cache_ar_segment_id"].data[<<b, cacheIndex(cache)>>]
                 = DECODING_ACTIVE_SEQUENCE_INDICATOR
            /\ ArEntrySlotHolds(cache', b, cacheIndex(cache), last'.stamp)]_vars

\* C7 happens: step capacity + 1, ragged, marked slot 0 active again and wrote no
\* token there: slot 0 still holds the token of step 1
C7_Witness ==
  /\ RaggedDecode(last)
  /\ lengthOf(cache, 0) = capacity + 1
  /\ \A b \in Batch :
       /\ cache["cache_ar_segment_id"].data[<<b, 0>>] = DECODING_ACTIVE_SEQUENCE_INDICATOR
       /\ ArEntrySlotHolds(cache, b, 0, 1)

\* the scales of the one-token key and value stamped `stamp`, head h, batch entry b:
\* quantization is along the kv axis
TokenKeyScale(stamp, h, b) == quantize_kv(KeyOf(stamp, 1), 3).scale.data[<<h, b, 0, 0>>]
TokenValueScale(stamp, h, b) == quantize_kv(ValueOf(stamp, 1), 3).scale.data[<<h, b, 0, 0>>]

\* the sequence position at which a decode call l writes its token into collection c
WritePosition(c, l) == IF l.use_ragged THEN lengthOf(c, 0) ELSE cacheIndex(c)

\* the scale tensor `name` of c holds `scale` for head h, batch entry b at sequence
\* position p, addressed as the quantized cache it scales is addressed
ArScaleHolds(c, name, h, b, p, scale) ==
  /\ CachedIdx(ar_cache_axis_order, <<h, b, p, 0>>) \in DOMAIN c[name].data
  /\ c[name].data[CachedIdx(ar_cache_axis_order, <<h, b, p, 0>>)] = scale

\* C8: with cache quantization enabled, the scale slice a decode call updates is at the
\* sequence position at which the call writes the quantized key/value token, in the
\* indexed and in the ragged addressing mode.
C8_ScaleAtTokenPosition ==
  [][(Succeeded(last', MODEL_MODE_AUTOREGRESSIVE) /\ quantize_kvcache)
       => \A h \in Heads, b \in Batch :
            /\ ArScaleHolds(cache', "cached_ar_key_scale", h, b, WritePosition(cache, last'),
                            TokenKeyScale(last'.stamp, h, b))
            /\ ArScaleHolds(cache', "cached_ar_value_scale", h, b, WritePosition(cache, last'),
                            TokenValueScale(last'.stamp, h, b))]_vars

\* C8 happens: the second decode step wrote its quantized token at position 1 and
\* its scale over the scale of the first token, at position 0
C8_Witness ==
  /\ Succeeded(last, MODEL_MODE_AUTOREGRESSIVE) /\ quantize_kvcache
  /\ last.stamp = 2 /\ lengthOf(cache, 0) = 2
  /\ ~ArScaleHolds(cache, "cached_ar_key_scale", 0, 0, 1, TokenKeyScale(2, 0, 0))
  /\ ArScaleHolds(cache, "cached_ar_key_scale", 0, 0, 0, TokenKeyScale(2, 0, 0))

\* tensor t, cached in axis order `order`, is the tensor `logical` of layout
\* (head, batch, sequence, kv): the same shape, permuted, and the same elements
HoldsInLayout(t, order, logical) ==
  /\ t.shape = [i \in 1 .. 4 |-> logical.shape[order[i] + 1]]
  /\ DOMAIN t.data = {CachedIdx(order, l) : l \in DOMAIN logical.data}
  /\ \A l \in DOMAIN logical.data : t.data[CachedIdx(order, l)] = logical.data[l]

\* the prefill region of c is the key and value stamped `stamp` of `sequence` tokens,
\* quantized along the kv axis when the cache is quantized, and nothing else
PrefillRegionIs(c, stamp, sequence) ==
  IF quantize_kvcache
  THEN /\ HoldsInLayout(c["cached_prefill_key"], prefill_cache_axis_order,
                        quantize_kv(KeyOf(stamp, sequence), 3).value)
       /\ HoldsInLayout(c["cached_prefill_key_scale"], prefill_cache_axis_order,
                        quantize_kv(KeyOf(stamp, sequence), 3).scale)
       /\ HoldsInLayout(c["cached_prefill_value"], prefill_cache_axis_order,
                        quantize_kv(ValueOf(stamp, sequence), 3).value)
       /\ HoldsInLayout(c["cached_prefill_value_scale"], prefill_cache_axis_order,
                        quantize_kv(ValueOf(stamp, sequence), 3).scale)
  ELSE /\ HoldsInLayout(c["cached_prefill_key"], prefill_cache_axis_order,
                        KeyOf(stamp, sequence))
       /\ HoldsInLayout(c["cached_prefill_value"], prefill_cache_axis_order,
                        ValueOf(stamp, sequence))

\* the prefill segment ids of c are one segment id for each of `sequence` tokens of
\* every batch entry
PrefillSegmentIdsAreOne(c, sequence) ==
  /\ c["cache_prefill_segment_id"].shape = <<batch_size, sequence>>
  /\ \A b \in Batch, p \in 0 .. sequence - 1 : c["cache_prefill_segment_id"].data[<<b, p>>] = 1

\* C9: a successful prefill call replaces the whole prefill key and value region with
\* the given key/value, nothing of the previous prefill content remaining, and records
\* the given segment ids as the prefill segment ids.
C9_PrefillReplacesRegion ==
  [][Succeeded(last', MODEL_MODE_PREFILL)
       => /\ PrefillRegionIs(cache', last'.stamp, last'.sequence)
          /\ last'.segment_ids = "one" => PrefillSegmentIdsAreOne(cache', last'.sequence)]_vars

\* C9 happens: a prefill with segment ids returned on a cache that decode steps, hence
\* an earlier prefill, had filled
C9_Witness ==
  /\ Succeeded(last, MODEL_MODE_PREFILL)
  /\ last.segment_ids = "one" /\ last.stamp = 2
  /\ lengthOf(cache, 0) >= 1
  /\ PrefillRegionIs(cache, 2, last.sequence)
  /\ PrefillSegmentIdsAreOne(cache, last.sequence)

\* every element of tensor t is 0
AllZero(t) == \A p \in DOMAIN t.data : t.data[p] = 0

\* C10: a prefill for a new sequence after decode steps on a previous sequence with the
\* same cache resets the prefill region to the new key/value, and leaves no segment
\* id of the previous sequence to be read: no autoregressive slot stays active, and
\* the prefill segment ids are the given ones, or all inactive when none are given.
C10_PrefillIsolatesSequences ==
  [][(Succeeded(last', MODEL_MODE_PREFILL) /\ Allocated(cache) /\ lengthOf(cache, 0) >= 1)
       => /\ PrefillRegionIs(cache', last'.stamp, last'.sequence)
          /\ AllZero(cache'["cache_ar_segment_id"])
          /\ last'.segment_ids = "one" => PrefillSegmentIdsAreOne(cache', last'.sequence)
          /\ last'.segment_ids = "none" => AllZero(cache'["cache_prefill_segment_id"])]_vars

\* C10, what the code keeps: the prefill region is reset to the new key/value
C10_PrefillResetsRegionAfterDecode ==
  [][(Succeeded(last', MODEL_MODE_PREFILL) /\ Allocated(cache) /\ lengthOf(cache, 0) >= 1)
       => PrefillRegionIs(cache', last'.stamp, last'.sequence)]_vars

\* C10 happens: after decode steps, a prefill that passed no segment ids returned, and
\* the segment ids of the previous sequence are still there, prefill and autoregressive
C10_Witness ==
  /\ Succeeded(last, MODEL_MODE_PREFILL) /\ last.segment_ids = "none"
  /\ lengthOf(cache, 0) >= 1
  /\ PrefillSegmentIdsAreOne(cache, MaxPrefillLength)
  /\ \A b \in Batch : cache["cache_ar_segment_id"].data[<<b, 0>>]
                        = DECODING_ACTIVE_SEQUENCE_INDICATOR

\* C11: the cache is in state Decoding(0) right after any successful prefill call, one
\* issued after n > 0 decode steps included: the cursor is 0, every length counter is
\* 0 and no autoregressive segment id is active.
C11_PrefillLeavesDecodingZero ==
  [][Succeeded(last', MODEL_MODE_PREFILL)
       => /\ cacheIndex(cache') = 0
          /\ \A b \in Batch : lengthOf(cache', b) = 0
          /\ AllZero(cache'["cache_ar_segment_id"])]_vars

\* C11, what the code keeps: a successful prefill leaves the decode-step bookkeeping
\* it found, and that of zero steps when it allocates it
C11_PrefillKeepsDecodeBookkeeping ==
  [][Succeeded(last', MODEL_MODE_PREFILL)
       => IF Allocated(cache)
          THEN /\ cache'["cache_ar_index"] = cache["cache_ar_index"]
               /\ cache'["cache_ar_lengths"] = cache["cache_ar_lengths"]
               /\ cache'["cache_ar_segment_id"] = cache["cache_ar_segment_id"]
          ELSE /\ cacheIndex(cache') = 0
               /\ \A b \in Batch : lengthOf(cache', b) = 0
               /\ AllZero(cache'["cache_ar_segment_id"])]_vars

\* C11 happens: a prefill returned after a decode step, and the cursor, the counters
\* and the active segment id of that step are still there
C11_Witness ==
  /\ Succeeded(last, MODEL_MODE_PREFILL)
  /\ cacheIndex(cache) = 1 % capacity
  /\ \A b \in Batch :
       /\ lengthOf(cache, b) = 1
       /\ cache["cache_ar_segment_id"].data[<<b, 0>>] = DECODING_ACTIVE_SEQUENCE_INDICATOR

\* the variables of the prefill region
PrefillNames ==
  {"cached_prefill_key", "cached_prefill_value", "cache_prefill_segment_id",
   "cached_prefill_key_scale", "cached_prefill_value_scale"}

\* the prefill region of c1 and of c2 are the same variables with the same tensors
SamePrefillRegion(c1, c2) ==
  \A name \in PrefillNames :
    /\ has_variable(c1, name) <=> has_variable(c2, name)
    /\ has_variable(c1, name) => c1[name] = c2[name]

\* C12: a decode call never changes the prefill region: the prefill key, value,
\* segment ids and scales are the same before and after every decode call.
C12_DecodeKeepsPrefillRegion ==
  [][last'.model_mode = MODEL_MODE_AUTOREGRESSIVE => SamePrefillRegion(cache, cache')]_vars

\* C12 happens: two decode steps after a full prefill with segment ids, and the
\* prefill region still is that prefill
C12_Witness ==
  /\ Succeeded(last, MODEL_MODE_AUTOREGRESSIVE)
  /\ lengthOf(cache, 0) = 2
  /\ \E stamp \in Stamps : PrefillRegionIs(cache, stamp, MaxPrefillLength)
  /\ PrefillSegmentIdsAreOne(cache, MaxPrefillLength)

\* C13: a call in train mode returns and allocates or changes no cache variable, in
\* every cache state.
C13_TrainLeavesCache ==
  [][last'.model_mode = MODEL_MODE_TRAIN => last'.error = "none" /\ cache' = cache]_vars

\* C13 happens: a train call returned on a cache that a prefill and a decode had filled
C13_Witness ==
  /\ Succeeded(last, MODEL_MODE_TRAIN)
  /\ Allocated(cache) /\ lengthOf(cache, 0) >= 1

\* C14: every prefill or decode call either returns or fails before any cache variable
\* has been allocated or changed.
C14_NoPartialFailure ==
  [][(/\ last'.model_mode \in {MODEL_MODE_PREFILL, MODEL_MODE_AUTOREGRESSIVE}
      /\ last'.error # "none")
       => cache' = cache]_vars

\* C14, what the code keeps: a prefill call that fails changes nothing
C14_PrefillFailsWhole ==
  [][(last'.model_mode = MODEL_MODE_PREFILL /\ last'.error # "none") => cache' = cache]_vars

\* C14 happens: a decode call raised on the assertion that follows its writes, its
\* token is in slot 0 and the cursor has moved
C14_Witness ==
  /\ last.model_mode = MODEL_MODE_AUTOREGRESSIVE /\ last.error = "AssertionError"
  /\ ~quantize_kvcache /\ last.stamp = 1
  /\ \A b \in Batch : ArEntrySlotHolds(cache, b, 0, 1)
  /\ cacheIndex(cache) = 1 % capacity

\* C15, the allocation: a successful prefill on a cache without autoregressive region
\* leaves that region, its cursor and its length counters allocated and all zero
C15_Allocation ==
  (Succeeded(last', MODEL_MODE_PREFILL) /\ ~Allocated(cache))
    => /\ Allocated(cache')
       /\ cacheIndex(cache') = 0
       /\ cache'["cache_ar_lengths"].shape = <<batch_size>>
       /\ \A b \in Batch : lengthOf(cache', b) = 0
       /\ cache'["cached_ar_key"].shape
            = [i \in 1 .. 4 |->
                 (<<num_kv_heads, batch_size, capacity, KvHeadSize>>)[ar_cache_axis_order[i] + 1]]
       /\ cache'["cached_ar_value"].shape = cache'["cached_ar_key"].shape
       /\ AllZero(cache'["cached_ar_key"]) /\ AllZero(cache'["cached_ar_value"])
       /\ cache'["cache_ar_segment_id"].shape = <<batch_size, capacity>>
       /\ AllZero(cache'["cache_ar_segment_id"])

\* C15, the decode: once a prefill has returned, a one-token decode does not raise
\* the initialization error
C15_Decode ==
  (/\ last'.model_mode = MODEL_MODE_AUTOREGRESSIVE
   /\ last'.sequence = 1 /\ last'.value_sequence = 1
   /\ Succeeded(last, MODEL_MODE_PREFILL))
    => last'.error # "ValueError: KV cache not seeded"

\* C15: after a successful prefill call on a cache whose autoregressive region was not
\* allocated, that region, its cursor and its length counters exist and are all zero,
\* and a following decode call of sequence length 1 does not fail with the
\* initialization error.
C15_PrefillAllocatesDecodeRegion == [][C15_Allocation /\ C15_Decode]_vars

\* C15 happens: the first decode step after the first prefill returned
C15_Witness ==
  /\ Succeeded(last, MODEL_MODE_AUTOREGRESSIVE)
  /\ last.stamp = 1 /\ lengthOf(cache, 0) = 1
  /\ cacheIndex(cache) = 1 % capacity

\* the softmax attention of a row of logits over one chunk: its output / its sum
SingleChunkSoftmax(weights, value) ==
  single_chunk(compute_local_attention(<<weights>>, value))[1]

\* C16, the merge rule: the merge of the results of two contiguous chunks of a row
\* of logits is the single-chunk softmax attention over the whole row, for every
\* split point
C16_MergeIsSoftmax ==
  attn.op = "merge"
    => SameQuotient(attn.out[1], SingleChunkSoftmax(attn.weights, OneHot(Len(attn.weights))))

\* C16, the merge rule happens: a row split at the prefill length, the maxima of its
\* two chunks differ, one position is masked, and both chunks have weight in the merge
C16_MergeWitness ==
  /\ attn.op = "merge"
  /\ Len(attn.weights) = MaxTargetLength /\ attn.split = MaxPrefillLength
  /\ attn.local[1].local_max[1] < attn.local[2].local_max[1]
  /\ attn.weights[1] = DEFAULT_MASK_VALUE
  /\ attn.out[1].num[1] = 0
  /\ attn.out[1].num[MaxPrefillLength] > 0 /\ attn.out[1].num[MaxTargetLength] > 0

\* the key position j is permitted for the query position i in train and prefill mode
PermittedCausal(decoder_segment_ids, i, j) ==
  /\ j <= i
  /\ decoder_segment_ids = NoSegmentIds \/ decoder_segment_ids[i] = decoder_segment_ids[j]

\* the keys that are `key` up to the position i
KeysSameUpTo(key, i) ==
  {key2 \in Keys(Len(key)) : \A s \in 1 .. i : key2[s] = key[s]}

\* the values that are the unit vectors up to the position i, and a constant vector after
ValuesSameUpTo(n, i) ==
  {[s \in 1 .. n |-> IF s <= i THEN OneHot(n)[s] ELSE [d \in 1 .. n |-> c]] : c \in 0 .. 1}

\* C18: in train and prefill mode the mask permits the key position j for the query
\* position i iff j <= i and no segment ids are given or those of i and j are equal;
\* the output at i has no weight on a position j > i and is the same for every key
\* and value that differ at positions j > i only.
C18_CausalSegmentMask ==
  (attn.op = "attend" /\ attn.model_mode \in {MODEL_MODE_TRAIN, MODEL_MODE_PREFILL})
    => \A i \in 1 .. Len(attn.query) :
         /\ \A j \in 1 .. Len(attn.key) :
              /\ generate_attention_mask(attn.query, attn.key, attn.segment_ids,
                                         attn.model_mode)[i][j] = 0
                   <=> PermittedCausal(attn.segment_ids, i, j)
              /\ attn.out[i].num[j] > 0 <=> PermittedCausal(attn.segment_ids, i, j)
         /\ \A key2 \in KeysSameUpTo(attn.key, i) :
              SameQuotient(single_chunk(apply_attention(attn.query, key2, OneHot(Len(key2)),
                                                        attn.segment_ids, attn.lengths,
                                                        attn.model_mode, attn.use_ragged))[i],
                           attn.out[i])
         /\ \A value2 \in ValuesSameUpTo(Len(attn.key), i) :
              SameQuotient(single_chunk(apply_attention(attn.query, attn.key, value2,
                                                        attn.segment_ids, attn.lengths,
                                                        attn.model_mode, attn.use_ragged))[i],
                           attn.out[i])

\* C18 happens: a prefill of full length in one segment whose first key has the larger
\* logit at the last query: the first query attends position 0 alone, the last all
C18_Witness ==
  /\ attn.op = "attend" /\ attn.model_mode = MODEL_MODE_PREFILL
  /\ Len(attn.key) = MaxPrefillLength
  /\ attn.segment_ids = [s \in 1 .. MaxPrefillLength |-> 1]
  /\ attn.query[MaxPrefillLength][1] = 1
  /\ attn.key[1][1] = 1 /\ attn.key[MaxPrefillLength][1] = 0
  /\ attn.out[1].num[MaxPrefillLength] = 0
  /\ attn.out[MaxPrefillLength].num[1] > attn.out[MaxPrefillLength].num[MaxPrefillLength]
  /\ attn.out[MaxPrefillLength].num[MaxPrefillLength] > 0

\* C19: in autoregressive mode the mask permits the key position j iff the stored
\* segment id of j is the active sentinel, for every query position, those before j
\* included; the query has no segment id in the mask.
C19_ActiveSentinelMask ==
  (attn.op = "attend" /\ attn.model_mode = MODEL_MODE_AUTOREGRESSIVE /\ ~attn.use_ragged)
    => \A j \in 1 .. Len(attn.key) :
         /\ \A i \in 1 .. Len(attn.key) :
              generate_attention_mask(attn.key, attn.key, attn.segment_ids,
                                      MODEL_MODE_AUTOREGRESSIVE)[i][j] = 0
                <=> attn.segment_ids[j] = DECODING_ACTIVE_SEQUENCE_INDICATOR
         /\ (\E s \in 1 .. Len(attn.key) :
               attn.segment_ids[s] = DECODING_ACTIVE_SEQUENCE_INDICATOR)
              => (attn.out[1].num[j] > 0
                    <=> attn.segment_ids[j] = DECODING_ACTIVE_SEQUENCE_INDICATOR)

\* C19 happens: the one-token query attends the last position of the chunk, whose
\* segment id is the sentinel, and not the first, whose segment id is another
C19_Witness ==
  /\ attn.op = "attend" /\ attn.model_mode = MODEL_MODE_AUTOREGRESSIVE /\ ~attn.use_ragged
  /\ Len(attn.key) = cache_length
  /\ attn.segment_ids[1] = 2
  /\ attn.segment_ids[cache_length] = DECODING_ACTIVE_SEQUENCE_INDICATOR
  /\ attn.out[1].num[1] = 0 /\ attn.out[1].num[cache_length] > 0

\* a query of one token that scores every key alike
UniformQuery == <<[d \in 1 .. KvHeadSize |-> 0]>>

\* the single-chunk softmax attention of the query over the concatenation of the
\* prefill region and the autoregressive region of c
ConcatenatedSoftmax(c, query, h, b) ==
  LET key == cached_kv(c, "cached_prefill_key", prefill_cache_axis_order, h, b)
               \o cached_kv(c, "cached_ar_key", ar_cache_axis_order, h, b)
      value == cached_kv(c, "cached_prefill_value", prefill_cache_axis_order, h, b)
                 \o cached_kv(c, "cached_ar_value", ar_cache_axis_order, h, b)
  IN SingleChunkSoftmax(qk_product(query, key)[1], value)

\* the state after a prefill of full length and `capacity` decode steps, the cache
\* not quantized: both regions hold the tokens of the sequence
FullSequenceDecoded ==
  /\ Succeeded(last, MODEL_MODE_AUTOREGRESSIVE) /\ ~quantize_kvcache
  /\ \E stamp \in Stamps : PrefillRegionIs(cache, stamp, MaxPrefillLength)
  /\ \A b \in Batch :
       /\ lengthOf(cache, b) = capacity
       /\ \A p \in Slots : ArEntrySlotHolds(cache, b, p, p + 1)

\* the batch entries that have a row in the prefill segment ids of c
PrefillRows(c) == {b \in Batch : b < c["cache_prefill_segment_id"].shape[1]}

\* the output of the decode by the two-chunk merge path of the code is the
\* single-chunk softmax over the concatenation of both regions
MergePathIsSoftmax(c) ==
  \A h \in Heads, b \in PrefillRows(c) :
    SameQuotient(call_autoregressive(c, UniformQuery, h, b)[1],
                 ConcatenatedSoftmax(c, UniformQuery, h, b))

\* C16, end to end: after a prefill of maxPrefillLength tokens and the decodes that
\* fill the autoregressive region, the output of the last decode is the same by the
\* two-chunk merge path and by single-chunk softmax over the concatenation of the
\* positions of both regions.
C16_EndToEnd == FullSequenceDecoded => MergePathIsSoftmax(cache)

\* C16, what the code keeps end to end: the same, when the prefill segment ids are one
\* for every token
C16_EndToEndWithSegmentIds ==
  (FullSequenceDecoded /\ PrefillSegmentIdsAreOne(cache, MaxPrefillLength))
    => MergePathIsSoftmax(cache)

\* C16 happens: a prefill without segment ids and the decodes that fill the
\* autoregressive region; the merge path gives no weight to the prefill region
C16_Witness ==
  /\ FullSequenceDecoded
  /\ AllZero(cache["cache_prefill_segment_id"])
  /\ ~MergePathIsSoftmax(cache)

\* the key positions of the autoregressive region of batch entry b that the ragged
\* path attends: those below the length counter
RaggedPositions(c, b) == {p \in Slots : p < lengthOf(c, b)}

\* the key positions of the autoregressive region of batch entry b that the masked path
\* attends: those the mask of the stored segment ids permits
MaskedPositions(c, b) ==
  {p \in Slots :
     generate_attention_mask(UniformQuery, [s \in 1 .. capacity |-> UniformQuery[1]],
                             SegmentRow(c["cache_ar_segment_id"], b),
                             MODEL_MODE_AUTOREGRESSIVE)[1][p + 1] = 0}

\* the attention of the query over the autoregressive chunk of c, by the ragged path or
\* by the masked path
ArAttention(c, query, h, b, use_ragged) ==
  single_chunk(apply_attention(
                 query,
                 cached_kv(c, "cached_ar_key", ar_cache_axis_order, h, b),
                 cached_kv(c, "cached_ar_value", ar_cache_axis_order, h, b),
                 SegmentRow(c["cache_ar_segment_id"], b), <<lengthOf(c, b)>>,
                 MODEL_MODE_AUTOREGRESSIVE, use_ragged))[1]

\* C17: in every reachable cache state and for every batch entry the autoregressive key
\* positions below the length counter are the positions whose stored segment id is the
\* active sentinel, and the ragged path and the masked path give the same attention
\* over the autoregressive region.
C17_RaggedEquivalence ==
  Allocated(cache)
    => \A b \in Batch :
         /\ RaggedPositions(cache, b) = MaskedPositions(cache, b)
         /\ ~quantize_kvcache
              => \A h \in Heads :
                   SameQuotient(ArAttention(cache, UniformQuery, h, b, TRUE),
                                ArAttention(cache, UniformQuery, h, b, FALSE))

\* C17 happens: one decode step taken, slot 0 attended by both paths and slot 1 by none
C17_Witness ==
  /\ Succeeded(last, MODEL_MODE_AUTOREGRESSIVE) /\ ~quantize_kvcache
  /\ \A b \in Batch :
       /\ lengthOf(cache, b) = 1
       /\ RaggedPositions(cache, b) = {0} /\ MaskedPositions(cache, b) = {0}
       /\ \A h \in Heads : ArAttention(cache, UniformQuery, h, b, TRUE).den > 0

\* an axis order other than the two supported ones
Unsupported_axis_order(order) == validate_compute_axis_order(order) # "none"

\* C20: an axis order other than (0,1,2,3) or (0,2,1,3) given for the prefill cache or
\* the autoregressive cache is rejected before any call allocates or changes a cache
\* variable: with such an order the cache stays empty and no call returns.
C20_UnsupportedOrderRejected ==
  (\/ Unsupported_axis_order(prefill_cache_axis_order)
   \/ Unsupported_axis_order(ar_cache_axis_order))
    => /\ cache = <<>>
       /\ last.model_mode = "none" \/ last.error # "none"

\* C20 happens: the prefill cache has the axis order (1,2,0,3), a prefill and a decode
\* have returned, and the prefill region is stored in that order
C20_Witness ==
  /\ prefill_cache_axis_order = <<1, 2, 0, 3>>
  /\ Unsupported_axis_order(prefill_cache_axis_order)
  /\ Succeeded(last, MODEL_MODE_AUTOREGRESSIVE)
  /\ cache["cached_prefill_key"].shape = <<batch_size, MaxPrefillLength, num_kv_heads, KvHeadSize>>
  /\ \A b \in Batch : lengthOf(cache, b) = 1

\* the shape of a cache tensor with the axis of the head dimension set to 1
ScaleShapeOf(shape, cached_axis_order) == SetAt(shape, IndexOf(cached_axis_order, 3), 1)

\* C22: with quantization, in every state after allocation the shape of each scale
\* tensor is the shape of its cache tensor with the head-dimension axis set to 1, in
\* the prefill region and in the autoregressive region.
C22_ScaleShapeFollowsCache ==
  (quantize_kvcache /\ Allocated(cache))
    => /\ cache["cached_prefill_key_scale"].shape
            = ScaleShapeOf(cache["cached_prefill_key"].shape, prefill_cache_axis_order)
       /\ cache["cached_prefill_value_scale"].shape
            = ScaleShapeOf(cache["cached_prefill_value"].shape, prefill_cache_axis_order)
       /\ cache["cached_ar_key_scale"].shape
            = ScaleShapeOf(cache["cached_ar_key"].shape, ar_cache_axis_order)
       /\ cache["cached_ar_value_scale"].shape
            = ScaleShapeOf(cache["cached_ar_value"].shape, ar_cache_axis_order)

\* C22, what the code keeps: the scales of the prefill region have the shape of their
\* tensors with the head-dimension axis set to 1
C22_PrefillScaleShapeFollowsCache ==
  (quantize_kvcache /\ Allocated(cache))
    => /\ cache["cached_prefill_key_scale"].shape
            = ScaleShapeOf(cache["cached_prefill_key"].shape, prefill_cache_axis_order)
       /\ cache["cached_prefill_value_scale"].shape
            = ScaleShapeOf(cache["cached_prefill_value"].shape, prefill_cache_axis_order)

\* C22 happens: a quantized cache in the default axis order after a prefill, whose
\* autoregressive key is (heads, batch, capacity, kv) and whose key scale is
\* (batch, capacity, heads, 1)
C22_Witness ==
  /\ quantize_kvcache /\ Succeeded(last, MODEL_MODE_PREFILL)
  /\ ar_cache_axis_order = <<0, 1, 2, 3>>
  /\ cache["cached_ar_key"].shape = <<num_kv_heads, batch_size, capacity, KvHeadSize>>
  /\ cache["cached_ar_key_scale"].shape = <<batch_size, capacity, num_kv_heads, 1>>
  /\ cache["cached_ar_key_scale"].shape # <<num_kv_heads, batch_size, capacity, 1>>

\* C23: in every state after allocation the prefill segment-id tensor has the shape
\* (batch, maxPrefillLength), whatever the number of kv heads and whether or not the
\* prefill was given segment ids.
C23_PrefillSegmentIdShape ==
  has_variable(cache, "cache_prefill_segment_id")
    => cache["cache_prefill_segment_id"].shape = <<batch_size, MaxPrefillLength>>

\* C23 happens: a prefill without segment ids on a cache of more kv heads than batch
\* entries; the segment-id tensor has a row for every kv head
C23_Witness ==
  /\ Succeeded(last, MODEL_MODE_PREFILL) /\ last.segment_ids = "none"
  /\ num_kv_heads > batch_size
  /\ cache["cache_prefill_segment_id"].shape = <<num_kv_heads, MaxPrefillLength>>

\* C24: in every reachable state every length counter is at most the capacity
\* maxTargetLength - maxPrefillLength of the autoregressive region.
C24_LengthsClamped ==
  Allocated(cache) => \A b \in Batch : lengthOf(cache, b) <= capacity

\* C24 happens: a ragged decode returned that found the counters at the capacity, a
\* position that is no index of the region, and left them above it
C24_Witness ==
  /\ Succeeded(last, MODEL_MODE_AUTOREGRESSIVE) /\ last.use_ragged
  /\ \A b \in Batch : lengthOf(cache, b) = capacity + 1
  /\ capacity \notin Slots

\* the shape of the prefill key and value of full capacity
FullPrefillShape ==
  cached_kv_shape(<<num_kv_heads, batch_size, MaxPrefillLength, KvHeadSize>>,
                  prefill_cache_axis_order)

\* C25, the region: after a prefill of fewer than maxPrefillLength tokens the prefill
\* key and value still have the full capacity
C25_Region ==
  (Succeeded(last', MODEL_MODE_PREFILL) /\ last'.sequence < MaxPrefillLength)
    => /\ cache'["cached_prefill_key"].shape = FullPrefillShape
       /\ cache'["cached_prefill_value"].shape = FullPrefillShape

\* C25, the decode: a one-token decode that follows such a prefill returns
C25_Decode ==
  (/\ Succeeded(last, MODEL_MODE_PREFILL) /\ last.sequence < MaxPrefillLength
   /\ last'.model_mode = MODEL_MODE_AUTOREGRESSIVE
   /\ last'.sequence = 1 /\ last'.value_sequence = 1)
    => last'.error = "none"

\* C25: after a prefill call with sequence length t < maxPrefillLength the prefill
\* region still has the full capacity maxPrefillLength, and a following decode call
\* succeeds.
C25_ShortPrefillKeepsCapacity == [][C25_Region /\ C25_Decode]_vars

\* C25 happens: a one-token decode raised on the shape of the prefill key, which a
\* prefill of fewer tokens has left shorter than the capacity
C25_Witness ==
  /\ last.model_mode = MODEL_MODE_AUTOREGRESSIVE /\ last.sequence = 1
  /\ last.error = "AssertionError"
  /\ cache["cached_prefill_key"].shape # FullPrefillShape
  /\ cache["cached_prefill_key"].shape
       = cached_kv_shape(<<num_kv_heads, batch_size, MaxPrefillLength - 1, KvHeadSize>>,
                         prefill_cache_axis_order)

\* C29: in every state after allocation all batch entries have the same length
\* counter, and the cursor is that value modulo the capacity; the cursor is the
\* length itself while fewer than capacity decode steps have been taken.
C29_CursorIsLengthModCapacity ==
  Allocated(cache)
    => \A b \in Batch :
         /\ lengthOf(cache, b) = lengthOf(cache, 0)
         /\ cacheIndex(cache) = lengthOf(cache, b) % capacity
         /\ lengthOf(cache, b) < capacity => cacheIndex(cache) = lengthOf(cache, b)

\* C29 happens: two batch entries after capacity + 1 decode steps, the cursor wrapped
C29_Witness ==
  /\ Allocated(cache) /\ batch_size = 2
  /\ lengthOf(cache, 0) = capacity + 1 /\ lengthOf(cache, 1) = capacity + 1
  /\ cacheIndex(cache) = (capacity + 1) % capacity

\* C30, the write: the position a decode step writes is below the length the same
\* step passes to attention, the counter after its increment
C30_WriteWithinRange ==
  (Succeeded(last', MODEL_MODE_AUTOREGRESSIVE) /\ ~quantize_kvcache)
    => WritePosition(cache, last') < lengthOf(cache', 0)

\* C30, the first decode step of a sequence: the step follows a prefill, so its token
\* is the only one of the current sequence, and every autoregressive position below
\* the length passed to attention holds it
C30_FirstStepOfSequence ==
  (/\ Succeeded(last, MODEL_MODE_PREFILL)
   /\ Succeeded(last', MODEL_MODE_AUTOREGRESSIVE) /\ ~quantize_kvcache)
    => \A b \in Batch, p \in Slots :
         p < lengthOf(cache', b) => ArEntrySlotHolds(cache', b, p, last'.stamp)

\* C30: at every decode step the token written by that step lies within the range
\* attended by the same step, and every autoregressive position below the length
\* passed to attention holds a token written by a decode step of the current
\* sequence, never a zero-initialized or previous-sequence slot.
C30_AttendedRangeIsCurrentSequence == [][C30_WriteWithinRange /\ C30_FirstStepOfSequence]_vars

\* C30, what the code keeps: the write position is below the length passed to attention
C30_WriteBelowLength == [][C30_WriteWithinRange]_vars

\* C30 happens: after two decode steps and nothing failed, the attended range 0..1
\* holds the tokens of steps 1 and 2
C30_Witness ==
  /\ Succeeded(last, MODEL_MODE_AUTOREGRESSIVE) /\ ~quantize_kvcache
  /\ \A b \in Batch :
       /\ lengthOf(cache, b) = 2
       /\ ArEntrySlotHolds(cache, b, 0, 1) /\ ArEntrySlotHolds(cache, b, 1, 2)

\* C26: for every permutation `order` of the four axes,
\* revert_kv_cache(reshape_kv_cache(x, order), order) is x, in the logical axis order,
\* and the shape of reshape_kv_cache(x, order) is cached_kv_shape(shape(x), order);
\* the cached tensor holds at the permuted index what x holds at the logical index.
C26_LayoutRoundTrip ==
  attn.op = "layout"
    => /\ attn.reverted.shape = attn.kv.shape
       /\ \A p \in Idx(attn.kv.shape) : attn.reverted.data[p] = attn.kv.data[p]
       /\ attn.cached.shape = cached_kv_shape(attn.kv.shape, attn.cached_axis_order)
       /\ \A p \in Idx(attn.kv.shape) :
            attn.cached.data[CachedIdx(attn.cached_axis_order, p)] = attn.kv.data[p]
       /\ \A i \in 1 .. 4 :
            attn.layout[i] = kv_cache_logical_layout[attn.cached_axis_order[i] + 1]

\* C26 happens: a tensor of four different axis sizes stored in an axis order that is
\* not its own inverse, the kv axis first
C26_Witness ==
  /\ attn.op = "layout"
  /\ attn.cached_axis_order = <<3, 0, 1, 2>>
  /\ attn.kv.shape = <<1, 2, MaxTargetLength, KvHeadSize + 1>>
  /\ attn.cached.shape = <<KvHeadSize + 1, 1, 2, MaxTargetLength>>
  /\ attn.reverted = attn.kv

\* C21: a call with a query of shape (numQueryHeads, batch, t, dim) and a key and a
\* value of shape (numKvHeads, batch, s, dim), numKvHeads dividing numQueryHeads and
\* smaller than it included, passes the attention input checks.
C21_GroupedInputsAccepted ==
  (attn.op = "check" /\ attn.key = attn.value) => attn.error = "none"

\* C21, what the code keeps: the checks pass when the query has the heads of the key
C21_UngroupedInputsAccepted ==
  (attn.op = "check" /\ attn.key = attn.value /\ attn.query[1] = attn.key[1])
    => attn.error = "none"

\* C21 happens: a query of two heads for each of two kv heads is refused on its heads
C21_Witness ==
  /\ attn.op = "check" /\ attn.key = attn.value
  /\ attn.query[1] = 4 /\ attn.key[1] = 2
  /\ attn.error = "AssertionError: q, k, v batch dims must match."

\* the assignments of the query heads to (kv head, place in its group), groupSize query
\* heads for each kv head
HeadMaps(n_kv, g) ==
  {head \in [(0 .. n_kv - 1) \X (0 .. g - 1) -> 0 .. n_kv * g - 1] :
     \A kg1, kg2 \in (0 .. n_kv - 1) \X (0 .. g - 1) : head[kg1] = head[kg2] => kg1 = kg2}

\* the score of the query at (n, b, t) against the key at (k, b, s)
Score(query, key, n, k, b, t, s) ==
  SumBelow([d \in 0 .. query.shape[4] - 1 |->
              query.data[<<n, b, t, d>>] * key.data[<<k, b, s, d>>]], query.shape[4])

\* the products of the state under an assignment of the query heads: the score at
\* (k, b, g, t, s) is that of the query at (head[k, g], b, t) against the key at
\* (k, b, s), and the output at (head[k, g], b, t) is the sum over s of those scores
\* times the value at (k, b, s)
GroupedBy(head) ==
  LET n_kv == attn.key.shape[1]
  IN \A k \in 0 .. n_kv - 1, b \in Batch, g \in 0 .. attn.g - 1,
        t \in 0 .. attn.query.shape[3] - 1 :
       /\ \A s \in 0 .. attn.key.shape[3] - 1 :
            attn.attn_weights.data[<<k, b, g, t, s>>]
              = Score(attn.query, attn.key, head[<<k, g>>], k, b, t, s)
       /\ \A d \in 0 .. attn.value.shape[4] - 1 :
            attn.out.data[<<head[<<k, g>>], b, t, d>>]
              = SumBelow([s \in 0 .. attn.key.shape[3] - 1 |->
                            Score(attn.query, attn.key, head[<<k, g>>], k, b, t, s)
                              * attn.value.data[<<k, b, s, d>>]], attn.key.shape[3])

\* C27: for every groupSize >= 1 the query-key product scores the query at (query head
\* n, batch b, position t) only against keys of the same batch entry b and of one kv
\* head, with exactly groupSize query heads mapped to each kv head, and the
\* weighted-value product places the result for that query at index (n, b, t) of
\* the output.
C27_GroupedProducts ==
  (attn.op = "products" /\ attn.error = "none")
    => /\ attn.attn_weights.shape
            = <<attn.key.shape[1], batch_size, attn.g, attn.query.shape[3], attn.key.shape[3]>>
       /\ attn.out.shape = attn.query.shape
       /\ \E head \in HeadMaps(attn.key.shape[1], attn.g) : GroupedBy(head)

\* C27, what the code keeps: the claim for one query head for each kv head, and for a
\* batch of one entry
C27_UngroupedOrSingleBatchProducts ==
  (attn.op = "products" /\ attn.error = "none" /\ (attn.g = 1 \/ batch_size = 1))
    => /\ attn.attn_weights.shape
            = <<attn.key.shape[1], batch_size, attn.g, attn.query.shape[3], attn.key.shape[3]>>
       /\ attn.out.shape = attn.query.shape
       /\ \E head \in HeadMaps(attn.key.shape[1], attn.g) : GroupedBy(head)

\* C27 happens: two query heads for one kv head and a batch of two entries; the score
\* at (kv head 0, batch entry 0, group place 1) is that of the query at (head 0, batch
\* entry 1) against the keys of batch entry 0
C27_Witness ==
  /\ attn.op = "products" /\ attn.error = "none"
  /\ attn.g = 2 /\ batch_size = 2 /\ attn.key.shape[1] = 1
  /\ \A s \in 0 .. attn.key.shape[3] - 1 :
       attn.attn_weights.data[<<0, 0, 1, 0, s>>]
         = SumBelow([d \in 0 .. attn.query.shape[4] - 1 |->
                       attn.query.data[<<0, 1, 0, d>>] * attn.key.data[<<0, 0, s, d>>]],
                    attn.query.shape[4])

\* a query of n tokens that scores every key alike
UniformQueries(n) == [t \in 1 .. n |-> [d \in 1 .. KvHeadSize |-> 0]]

\* __call__ with the arguments of the call l and a query that scores every key alike,
\* on the collection c, for the kv head h and the batch entry b
CallOf(c, l, h, b) ==
  call(c, UniformQueries(l.sequence), KeyOf(l.stamp, l.sequence),
       ValueOf(l.stamp, l.value_sequence), SegmentIdsOf(l.segment_ids, l.sequence),
       l.model_mode, h, b)

\* the causal softmax attention of a query that scores every key alike over one chunk
\* of one segment, at the query position i: the mean of the values up to i
CausalMean(value, i) ==
  divide(Array([d \in 1 .. Len(value[1]) |-> SumTo(Array([j \in 1 .. i |-> value[j][d]]), i)]), i)

\* C28, train: the call leaves the cache and returns the attention over the one chunk
\* of the key and value given
C28_Train ==
  Succeeded(last', MODEL_MODE_TRAIN)
    => \A h \in Heads, b \in Batch :
         \A result \in {CallOf(cache, last', h, b)},
            given \in {kv_rows(ValueOf(last'.stamp, last'.sequence), h, b)} :
           /\ result.error = "none"
           /\ result.cache = cache
           /\ \A i \in 1 .. last'.sequence :
                SameQuotient(result.out[i], CausalMean(given, i))

\* C28, prefill: the call returns the attention over the one chunk that the prefill
\* region holds after it
C28_Prefill ==
  (Succeeded(last', MODEL_MODE_PREFILL) /\ ~quantize_kvcache)
    => \A h \in Heads, b \in Batch :
         \A result \in {CallOf(cache, last', h, b)},
            written \in {cached_kv(cache', "cached_prefill_value", prefill_cache_axis_order,
                                   h, b)} :
           /\ result.cache = cache'
           /\ Len(written) = last'.sequence
           /\ \A i \in 1 .. last'.sequence :
                SameQuotient(result.out[i], CausalMean(written, i))

\* the attention of __call__ over the prefill chunk of c in autoregressive mode
PrefillChunk(c, h, b) ==
  apply_attention(UniformQuery,
                  cached_kv(c, "cached_prefill_key", prefill_cache_axis_order, h, b),
                  cached_kv(c, "cached_prefill_value", prefill_cache_axis_order, h, b),
                  SegmentRow(c["cache_prefill_segment_id"], b), NoLengths,
                  MODEL_MODE_AUTOREGRESSIVE, TRUE)

\* the attention of __call__ over the autoregressive chunk of c
ArChunk(c, h, b) ==
  apply_attention(UniformQuery,
                  cached_kv(c, "cached_ar_key", ar_cache_axis_order, h, b),
                  cached_kv(c, "cached_ar_value", ar_cache_axis_order, h, b),
                  SegmentRow(c["cache_ar_segment_id"], b), <<lengthOf(c, b)>>,
                  MODEL_MODE_AUTOREGRESSIVE, TRUE)

\* C28, decode: the call writes the token and steps the counters, and returns the merge
\* of the attentions over the prefill chunk and the autoregressive chunk of the cache
\* after the write
C28_Decode ==
  (Succeeded(last', MODEL_MODE_AUTOREGRESSIVE) /\ last'.use_ragged /\ ~quantize_kvcache)
    => \A h \in Heads, b \in PrefillRows(cache') :
         \A result \in {CallOf(cache, last', h, b)},
            prefill \in {PrefillChunk(cache', h, b)}, ar \in {ArChunk(cache', h, b)} :
           /\ result.cache = cache'
           /\ lengthOf(cache', b) = lengthOf(cache, b) + 1
           /\ result.out
                = Quotients(normalize_attention(<<prefill.local_out, ar.local_out>>,
                                                <<prefill.local_max, ar.local_max>>,
                                                <<prefill.local_sum, ar.local_sum>>))

\* C28, any other mode: the call raises and the cache is as it was
C28_Other ==
  last'.model_mode \notin {MODEL_MODE_TRAIN, MODEL_MODE_PREFILL, MODEL_MODE_AUTOREGRESSIVE}
    => \A result \in {CallOf(cache, last', 0, 0)} :
         /\ last'.error # "none" /\ cache' = cache
         /\ result.error # "none" /\ result.cache = cache

\* C28: mode dispatch. A train or prefill call runs attention over exactly one chunk
\* (the key and value given, resp. those just written to the prefill region) and
\* returns that chunk's output divided by its sum; a decode call first performs the
\* cache write and the counter updates, then runs attention separately over the
\* prefill chunk and the autoregressive chunk read after the write and returns their
\* merge; any other mode is rejected with an error and no cache change.
C28_ModeDispatch == [][C28_Train /\ C28_Prefill /\ C28_Decode /\ C28_Other]_vars

\* C28 happens: the second decode step of a sequence returned; the token it wrote is
\* in slot 1 and has weight in the merged output of the call
C28_Witness ==
  /\ Succeeded(last, MODEL_MODE_AUTOREGRESSIVE) /\ last.use_ragged /\ ~quantize_kvcache
  /\ last.stamp = 2 /\ PrefillSegmentIdsAreOne(cache, MaxPrefillLength)
  /\ \A b \in PrefillRows(cache) :
       /\ lengthOf(cache, b) = 2 /\ ArEntrySlotHolds(cache, b, 1, 2)
       /\ \A h \in Heads :
            /\ call_autoregressive(cache, UniformQuery, h, b)[1].den > 0
            /\ ~SameQuotient(call_autoregressive(cache, UniformQuery, h, b)[1],
                             CausalMean(cached_kv(cache, "cached_prefill_value",
                                                  prefill_cache_axis_order, h, b),
                                        MaxPrefillLength))

====
